---- MODULE Spec2Model ----
(***************************************************************************)
(* A model of go-trader's in-memory ledger store (StateManager), of the   *)
(* ingestion pipeline (MessageHandler) that feeds it, and of the strategy  *)
(* engine (Engine) that polls it.                                          *)
(*                                                                         *)
(* Sources: src/internal/ledger/ledger.go (StateManager, lines 382-682),   *)
(*          src/unnamed/part_005 (MessageHandler),                         *)
(*          src/internal/amqp/consumer.go (isStale),                       *)
(*          src/internal/strategy/engine.go (Engine).                      *)
(*                                                                         *)
(* The ring sizes and queue capacities of the source (200, 20, 1000, ...)  *)
(* are scaled down to small numbers so that TLC can enumerate every        *)
(* reachable state; each formula is stated over the named size, never over *)
(* the literal.                                                            *)
(***************************************************************************)
EXTENDS Integers, Sequences, FiniteSets, TLC

\* ------------------------------------------------------------------------
\* Sizes.  barRingBufferSize is 200 in the source (ledger.go:392).
barRingBufferSize == 3

\* Bar-end timestamps offered to the store: one more than the ring can hold,
\* so that a full series can still receive a bar it does not contain.
MaxTs == barRingBufferSize + 1

Instruments == {"EURUSD"}
Periods == {"ONE_MIN"}
Keys == Instruments \X Periods

\* Sequence numbers of historical bars: 0 (absent) and 1 (also what a
\* converted live bar carries).
Sequences == {0, 1}
AtrValues == {0, 1}

\* state.HistoricalBar, reduced to the fields the store logic reads or that
\* distinguish two deliveries of the same bar.
HistoricalBars ==
    [Instrument : Instruments, Period : Periods, ProducedAt : {0},
     BarEndTimestamp : 1..MaxTs, Sequence : Sequences, BidAtr : AtrValues, AskAtr : {0}]

\* state.Bar (a live bar): no sequence number, no ATR.
LiveBars ==
    [Instrument : Instruments, Period : Periods, ProducedAt : {0},
     BarEndTimestamp : 1..MaxTs]

\* The bulk-feed scenario: NumFeed historical bars (250 against a ring of 200
\* in the source's end-to-end scenario) with bar-end timestamps 1..NumFeed.
NumFeed == barRingBufferSize + 2

FeedSequences == {0, 1, 2}

\* calculateAndSendBars numbers the bars of one response: the loop runs oldest
\* to newest and sends sequence = totalBars - sentCount, so the oldest bar
\* carries totalBars and the newest carries 1.
JavaSequence == [i \in 1..NumFeed |-> NumFeed - (i - 1)]

FeedSeqAssignments == {JavaSequence} \cup [1..NumFeed -> FeedSequences]

FeedBar(a, i) ==
    [Instrument |-> "EURUSD", Period |-> "ONE_MIN", ProducedAt |-> 0,
     BarEndTimestamp |-> i, Sequence |-> a[i], BidAtr |-> 0, AskAtr |-> 0]

\* ------------------------------------------------------------------------
\* The ingestion pipeline.

\* tickRingBufferSize is 20 in the source (ledger.go:390).
tickRingBufferSize == 2

\* Channel capacities: 1000, 100, 500 and 10 in the source (part_005:29-32).
tickChannelSize == 3
barChannelSize == 2
historicalChannelSize == 2
accountChannelSize == 1

\* staleMessageThreshold is 3 s in the source (consumer.go:15); the model's
\* clock counts in units of which the threshold is one.
staleMessageThreshold == 1

\* The clock runs far enough for a message produced at time 0 to go stale.
MaxNow == staleMessageThreshold + 1

\* Deliveries the transport hands over in one run: enough to overfill the
\* largest channel.
MaxDeliveries == tickChannelSize + 1

\* Worker pools started by MessageHandler.Start.
NumBarWorkers == 3
NumHistoricalWorkers == 2

Classes == {"tick", "bar", "historical", "account"}

\* Each channel made one slot smaller than declared.
ChannelSize_OneLess(class) ==
    CASE class = "tick" -> tickChannelSize - 1
      [] class = "bar" -> barChannelSize - 1
      [] class = "historical" -> historicalChannelSize - 1
      [] class = "account" -> accountChannelSize - 1

ChannelSize(class) ==
    CASE class = "tick" -> tickChannelSize
      [] class = "bar" -> barChannelSize
      [] class = "historical" -> historicalChannelSize
      [] class = "account" -> accountChannelSize

Workers ==
    {<<"tick", 0>>} \cup ({"bar"} \X (0..(NumBarWorkers - 1)))
       \cup ({"historical"} \X (0..(NumHistoricalWorkers - 1))) \cup {<<"account", 0>>}

TickInstruments == {"EURUSD", "USDJPY"}

\* A delivery body is JSON text; json.Unmarshal either fails on it or yields
\* the struct it encodes.
Malformed == [ok |-> FALSE]

Body(msg) == [ok |-> TRUE, msg |-> msg]

\* The bodies the transport may deliver at time t as delivery number id.  A
\* message is stamped with its production time on arrival; it goes stale while
\* it waits in a channel or in a worker's hands.  Each tick and each account
\* snapshot carries its own occurrence timestamp, here the delivery number.
TickBodies(t, id) ==
    {Malformed} \cup
    {Body(m) : m \in [Instrument : TickInstruments, ProducedAt : {t}, Timestamp : {id}]}

BarBodies(t, id) ==
    {Malformed} \cup
    {Body(m) : m \in [Instrument : Instruments, Period : Periods,
                       ProducedAt : {t}, BarEndTimestamp : {1, 2}]}

HistoricalBodies(t, id) ==
    {Malformed} \cup
    {Body(m) : m \in [Instrument : Instruments, Period : Periods,
                       ProducedAt : {t}, BarEndTimestamp : {1, 2},
                       Sequence : {0}, BidAtr : {1}, AskAtr : {1}]}

\* Positions is a slice: the address of its backing array, 0 for nil.
AccountBodies(t, id) ==
    {Malformed} \cup
    {Body(m) : m \in [ProducedAt : {t}, Timestamp : {id}, Positions : {0}]}

NoDelivery == [id |-> 0]

\* Each run carries one class of traffic: the four pipelines share neither a
\* channel nor a worker.
TrafficMixes == {{c} : c \in Classes}

\* ------------------------------------------------------------------------
\* The strategy engine (engine.go).

\* runConfigs made in one run of the model; newRunID never repeats.
MaxRuns == 2

Strategies == {"DEMA_RSI", "SUPERTREND_TREND"}

\* s.(Parametrizable): the strategies with a SetParams method.
Parametrizable(s) == s = "SUPERTREND_TREND"

NoParams == "nil"

ParamsValues == {NoParams, "atrLen=10"}

\* qty in hundredths of a lot, atrMult in whole multiples: values below, inside
\* and above the guardrails of StartStrategyWithParams (0 is no quantity).
Qtys == {0, 20}
AtrMults == {2, 21}

\* A request has both qty and atrMult inside the guardrails, or both outside.
StartRequests ==
    {r \in [strategy : Strategies, qty : Qtys, atrMult : AtrMults, params : ParamsValues] :
        (r.qty = 0) <=> (r.atrMult = 21)}

NoRequest == [strategy |-> "", qty |-> 0, atrMult |-> 0, params |-> NoParams]

SignalNone == "NONE"
SignalBuy == "BUY"
SignalSell == "SELL"
Signals == {SignalNone, SignalBuy, SignalSell}

\* Prices and ATRs are counted in millionths (0.0001 is 100); quotes have five
\* decimals, so every close is a multiple of 10 and every mid is whole.
JPYInstruments == {"USDJPY"}

\* One closed bar per period end, each quoted once: the closes of the bar
\* ending at a given time.  A bar carries one ATR per side.
BidClose(bar) == 1100000 + 100 * bar.BarEndTimestamp
AskClose(bar) == BidClose(bar) + 20
AskAtr(bar) == bar.AskAtr

NoOrder == [serial |-> 0]

\* The reconciliation scenario.  main.go passes historicalBarsToFetch = 200,
\* the capacity of a series, to NewCentralLedger; both are scaled together.
historicalBarsToFetch == barRingBufferSize

\* time.NewTicker(15 * time.Second) and cooldown := 30 * time.Second, in seconds.
healthCheckInterval == 15
cooldown == 30

\* The number of ticks of the health checker's ticker a run covers.
MaxCycles == 3
MaxLedgerNow == MaxCycles * healthCheckInterval

\* Two of the instruments of instrumentList and two of the seven periods the
\* health checker inspects.
LedgerInstruments == {"EURUSD", "USDJPY"}
LedgerPeriods == {"ONE_MIN", "FIVE_MINS"}
LedgerKeys == LedgerInstruments \X LedgerPeriods

\* The zero time.Time a map lookup yields for a missing instrument: earlier
\* than any cooldown window the run can reach.
ZeroTime == 0 - (MaxLedgerNow + cooldown)

\* LedgerCommand.Type; the last stands for every unknown type.
CommandTypes == {"REQUEST_HISTORICAL_DATA", "UPDATE_INSTRUMENT_STATUS", "OTHER"}
LedgerCommands == [Type : CommandTypes, Data : LedgerInstruments]

\* The callers of the store in the locking scenario: the live-bar and the
\* historical workers MessageHandler.Start launches, and the readers (polling
\* tasks, the health checker, the API handlers).
NumReaders == 2
LockWriters ==
    ({"bar"} \X (0..(NumBarWorkers - 1))) \cup ({"historical"} \X (0..(NumHistoricalWorkers - 1)))
LockReaders == {"reader"} \X (0..(NumReaders - 1))
LockCallers == LockWriters \cup LockReaders

LockHistoricalBars ==
    [Instrument : Instruments, Period : Periods, ProducedAt : {0},
     BarEndTimestamp : 1..MaxTs, Sequence : Sequences, BidAtr : {0}, AskAtr : {0}]

\* ------------------------------------------------------------------------
\* Strategy parameters (Params, map[string]float64).  Values are in tenths:
\* -1.0, 0, 1.9 and 2.5.
ParamKeys == {"len", "buf", "atrLen", "mult", "other"}
ParamValues == {0 - 10, 0, 19, 25}

\* A nil map, or a map of up to two keys.
NilParams == [nil |-> TRUE, m |-> <<>>]
ParamMaps ==
    {[nil |-> FALSE, m |-> f] :
       f \in UNION {[ks -> ParamValues] : ks \in {s \in SUBSET ParamKeys : Cardinality(s) <= 2}}}

\* &strategy.DonchianBreakoutStrategy{} and &strategy.SupertrendStrategy{}
ZeroStrategies ==
    [BREAKOUT_DC |-> [len |-> 0, buf |-> 0, atrLen |-> 0],
     SUPERTREND_TREND |-> [atrLen |-> 0, mult |-> 0]]

\* ------------------------------------------------------------------------
\* Frontend commands (the Req of FrontendBroadcaster.processCommand), reduced
\* to the fields the modelled cases read.  Qty is in hundredths, SlPips in
\* pips.
MaxCommands == 3

HubCommands ==
    [Type : {"STRATEGY_START", "STRATEGY_STOP"}, Instrument : {"EURUSD"},
     Side : {""}, Qty : {0}, SlPips : {0}]
    \cup [Type : {"PLACE_ORDER"}, Instrument : {"EURUSD"},
          Side : {"BUY", "SELL"}, Qty : {10}, SlPips : {0, 10}]
    \cup [Type : {"PLACE_ORDER"}, Instrument : {"EURUSD"},
          Side : {""}, Qty : {10}, SlPips : {0}]

VARIABLES
    historicalBars,   \* StateManager.historicalBars: key -> series (index 1 = Go index 0)
    last,             \* the last store operation: its name, its argument, the series before it
    feedPending,      \* bulk feed: the bars not yet delivered
    feedOrder,        \* bulk feed: the bars delivered so far, in delivery order
    ticks,            \* StateManager.ticks: instrument -> ring of ticks, oldest first
    accountInfo,      \* StateManager.accountInfo
    applied,          \* instrument -> every tick UpdateTick was called with, in call order
    channel,          \* MessageHandler.{tick,bar,historical,account}Channel: class -> FIFO
    stopped,          \* MessageHandler.stopChannel is closed
    now,              \* the wall clock
    hold,             \* worker -> the delivery it received and has not yet processed
    exited,           \* the workers that returned from their loop
    log,              \* per delivery, by id: class, Ack and Nack calls, what became of it
    traffic,          \* the message classes the transport delivers in this run
    accepted,         \* overflow scenario: the ticks EnqueueTick queued, in that order
    runs,             \* Engine.runs: key -> the run identifier registered for it, 0 when none
    cfgs,             \* every runConfig made so far, indexed by run identifier
    engineLog,        \* how often SetParams was called and a stop event was emitted
    call,             \* the last StartStrategyWithParams / StopStrategy call
    published,        \* the last TradeCommand handed to PublishSubmitOrder
    bars,             \* StateManager.bars: key -> ring of live bars, oldest first
    heap,             \* backing arrays of Positions slices, by address
    got,              \* what a caller holds from its last Get call
    ledgerNow,        \* CentralLedger: the wall clock, in seconds since Start
    lastHistRequest,  \* CentralLedger.lastHistRequest: instrument -> time
    issued,           \* instrument -> when a backfill request was last published, by any path
    ledgerCall,       \* the last CentralLedger operation and the publisher calls it made
    requested,        \* instrument -> when the health checker last called the publisher for it
    mu,               \* StateManager.mu: the writer holding it and the readers holding it
    task,             \* store caller -> where it stands in its Update or Get call
    committed,        \* key -> the series as the last completed Update call left it
    strategies,       \* the strategy objects: name -> the fields SetParams writes
    setCall,          \* the last SetParams call: the strategy and the Params it was given
    emu,              \* Engine.mu: the caller holding it, "none" when free
    accesses,         \* the reads and writes of lastSignal / lastActionAt under way
    hub               \* Hub.Commands: the commands sent, the senders still blocked, who received each

storeVars == <<historicalBars, last, ticks, accountInfo, applied>>
feedVars == <<feedPending, feedOrder, accepted>>
pipeVars == <<channel, stopped, now, hold, exited, log, traffic>>
engineVars == <<runs, cfgs, engineLog, call, published>>
apiVars == <<bars, heap, got>>
ledgerVars == <<ledgerNow, lastHistRequest, issued, ledgerCall, requested>>
lockVars == <<mu, task, committed>>
strategyVars == <<strategies, setCall>>
raceVars == <<emu, accesses>>
hubVars == <<hub>>
otherVars == <<strategyVars, raceVars, hubVars>>
vars == <<historicalBars, last, feedPending, feedOrder, ticks, accountInfo, applied,
          channel, stopped, now, hold, exited, log, traffic, accepted,
          runs, cfgs, engineLog, call, published, bars, heap, got,
          ledgerNow, lastHistRequest, issued, ledgerCall, requested, mu, task, committed,
          strategies, setCall, emu, accesses, hub>>

\* ------------------------------------------------------------------------
\* Helpers of UpdateHistoricalBar / updateHistoricalSequenceOnLiveBar.

KeyOf(bar) == <<bar.Instrument, bar.Period>>

ReplaceAt(s, i, bar) == [s EXCEPT ![i] = bar]

Swap(s, i, j) == [s EXCEPT ![i] = s[j], ![j] = s[i]]

\* for i := range periodBars { if periodBars[i].BarEndTimestamp == ts {...; return} }
\* the first matching index, 0 when the loop falls through.
FindByTimestamp_Never(s, ts) == 0

FindByTimestamp(s, ts) ==
    IF \E i \in 1..Len(s) : s[i].BarEndTimestamp = ts
    THEN CHOOSE i \in 1..Len(s) :
            /\ s[i].BarEndTimestamp = ts
            /\ \A k \in 1..(i - 1) : s[k].BarEndTimestamp # ts
    ELSE 0

\* for i := range periodBars { if periodBars[i].Sequence == bar.Sequence && bar.Sequence != 0 {...} }
FindBySequence_Never(s, seq) == 0

FindBySequence(s, seq) ==
    IF seq # 0 /\ \E i \in 1..Len(s) : s[i].Sequence = seq
    THEN CHOOSE i \in 1..Len(s) :
            /\ s[i].Sequence = seq
            /\ \A k \in 1..(i - 1) : s[k].Sequence # seq
    ELSE 0

\* The nested exchange loops of the source:
\*   for i := 0; i < len-1; i++ { for j := i+1; j < len; j++ {
\*       if s[i].BarEndTimestamp < s[j].BarEndTimestamp { swap } } }
RECURSIVE SortInner(_, _, _)
SortInner(s, i, j) ==
    IF j > Len(s) THEN s
    ELSE SortInner(IF s[i].BarEndTimestamp < s[j].BarEndTimestamp
                   THEN Swap(s, i, j) ELSE s, i, j + 1)

RECURSIVE SortOuter(_, _)
SortOuter(s, i) ==
    IF i >= Len(s) THEN s ELSE SortOuter(SortInner(s, i, i + 1), i + 1)

SortNewestFirst_Skip(s) == s

SortNewestFirst(s) == SortOuter(s, 1)

\* seen := map; for _, b := range s { if seen[b.ts] {continue}; seen[b.ts]; out = append(out, b) }
RECURSIVE DedupFrom(_, _, _)
DedupFrom(s, k, out) ==
    IF k > Len(s) THEN out
    ELSE DedupFrom(s, k + 1,
                   IF \E m \in 1..Len(out) : out[m].BarEndTimestamp = s[k].BarEndTimestamp
                   THEN out ELSE Append(out, s[k]))

DedupFirstWins(s) == DedupFrom(s, 1, <<>>)

\* if len(s) > barRingBufferSize { s = s[:barRingBufferSize] }
TrimToRing_Skip(s) == s

TrimToRing(s) ==
    IF Len(s) > barRingBufferSize THEN SubSeq(s, 1, barRingBufferSize) ELSE s

\* The sequence rule tried before the timestamp rule.
MergeHistorical_SequenceFirst(s, bar) ==
    IF FindBySequence(s, bar.Sequence) # 0
    THEN ReplaceAt(s, FindBySequence(s, bar.Sequence), bar)
    ELSE IF FindByTimestamp(s, bar.BarEndTimestamp) # 0
    THEN ReplaceAt(s, FindByTimestamp(s, bar.BarEndTimestamp), bar)
    ELSE TrimToRing(DedupFirstWins(SortNewestFirst(Append(s, bar))))

\* The body of UpdateHistoricalBar on the series of the bar's key.
MergeHistorical(s, bar) ==
    IF FindByTimestamp(s, bar.BarEndTimestamp) # 0
    THEN ReplaceAt(s, FindByTimestamp(s, bar.BarEndTimestamp), bar)
    ELSE IF FindBySequence(s, bar.Sequence) # 0
    THEN ReplaceAt(s, FindBySequence(s, bar.Sequence), bar)
    ELSE TrimToRing(DedupFirstWins(SortNewestFirst(Append(s, bar))))

\* The conversion at the head of updateHistoricalSequenceOnLiveBar: timestamps
\* and key are copied, the indicators a live bar lacks are zeroed, Sequence is 1.
ToHistoricalBar(liveBar) ==
    [Instrument |-> liveBar.Instrument, Period |-> liveBar.Period,
     ProducedAt |-> liveBar.ProducedAt,
     BarEndTimestamp |-> liveBar.BarEndTimestamp,
     Sequence |-> 1, BidAtr |-> 0, AskAtr |-> 0]

\* The converted bar dropped instead of merged.
MergeLive_Drop(s, hb) == s

\* The body of updateHistoricalSequenceOnLiveBar after the conversion.
MergeLive(s, hb) ==
    IF FindByTimestamp(s, hb.BarEndTimestamp) # 0
    THEN TrimToRing(SortNewestFirst(ReplaceAt(s, FindByTimestamp(s, hb.BarEndTimestamp), hb)))
    ELSE TrimToRing(DedupFirstWins(<<hb>> \o s))

\* ------------------------------------------------------------------------
\* Store operations.

\* if len > tickRingBufferSize { s = s[len-tickRingBufferSize:] }
TrimTicks_KeepOldest(s) ==
    IF Len(s) > tickRingBufferSize THEN SubSeq(s, 1, tickRingBufferSize) ELSE s

TrimTicks(s) ==
    IF Len(s) > tickRingBufferSize
    THEN SubSeq(s, Len(s) - tickRingBufferSize + 1, Len(s)) ELSE s

UpdateTick(tick) ==
    /\ ticks' = [ticks EXCEPT ![tick.Instrument] = TrimTicks(Append(@, tick))]
    /\ applied' = [applied EXCEPT ![tick.Instrument] = Append(@, tick)]

UpdateAccountInfo(info) == accountInfo' = info

UpdateHistoricalBar(bar) ==
    /\ historicalBars' = [historicalBars EXCEPT ![KeyOf(bar)] = MergeHistorical(@, bar)]
    /\ last' = [op |-> "UpdateHistoricalBar", bar |-> bar, prev |-> historicalBars[KeyOf(bar)]]

UpdateLiveBar(bar) ==
    /\ historicalBars' = [historicalBars EXCEPT ![KeyOf(bar)] = MergeLive(@, ToHistoricalBar(bar))]
    /\ last' = [op |-> "UpdateLiveBar", bar |-> ToHistoricalBar(bar),
                prev |-> historicalBars[KeyOf(bar)]]

NoBar == [Instrument |-> "EURUSD", Period |-> "ONE_MIN", ProducedAt |-> 0,
          BarEndTimestamp |-> 0, Sequence |-> 0, BidAtr |-> 0, AskAtr |-> 0]

\* NewStateManager: empty maps.
InitStore ==
    /\ historicalBars = [k \in Keys |-> <<>>]
    /\ last = [op |-> "NewStateManager", bar |-> NoBar, prev |-> <<>>]
    /\ ticks = [i \in TickInstruments |-> <<>>]
    /\ applied = [i \in TickInstruments |-> <<>>]
    /\ accountInfo = [ProducedAt |-> 0, Timestamp |-> 0, Positions |-> 0]

\* NewMessageHandler followed by Start: empty channels, every worker waiting.
InitPipe ==
    /\ channel = [c \in Classes |-> <<>>]
    /\ stopped = FALSE
    /\ now = 0
    /\ hold = [w \in Workers |-> NoDelivery]
    /\ exited = {}
    /\ log = <<>>
    /\ traffic \in TrafficMixes

\* NewStateManager's empty live-bar map; no caller holds a value yet.
NoValue == [kind |-> "none", value |-> <<>>]

InitApi ==
    /\ bars = [k \in Keys |-> <<>>]
    /\ heap = <<>>
    /\ got = NoValue

\* NewCentralLedger: an empty lastHistRequest map; nothing published yet.
NewCentralLedger ==
    /\ ledgerNow = 0
    /\ lastHistRequest = [i \in LedgerInstruments |-> ZeroTime]
    /\ issued = [i \in LedgerInstruments |-> ZeroTime]
    /\ requested = [i \in LedgerInstruments |-> ZeroTime]
    /\ ledgerCall = [op |-> "NewCentralLedger",
                     calls |-> [i \in LedgerInstruments |-> 0], failed |-> {}]

\* No caller is inside a store call.
NoHolder == <<"none", 0>>
Idle == [at |-> "idle"]

InitLock ==
    /\ mu = [writer |-> NoHolder, readers |-> {}]
    /\ task = [c \in LockCallers |-> Idle]
    /\ committed = [k \in Keys |-> <<>>]

\* NewEngine: an empty registry.
NewStrategies ==
    /\ strategies = ZeroStrategies
    /\ setCall = [strategy |-> "", params |-> NilParams]

\* sync.Mutex zero value: unlocked; no goroutine is at a field of a run.
NewEngineMutex ==
    /\ emu = "none"
    /\ accesses = {}

\* NewHub: Commands is an unbuffered channel; nothing sent yet, the process
\* is up.
NewHub ==
    hub = [cmds |-> <<>>, pending |-> {}, processed |-> <<>>, dropped |-> {},
           crashed |-> FALSE]

InitOther == NewStrategies /\ NewEngineMutex /\ NewHub

NewEngine ==
    /\ runs = [k \in Keys |-> 0]
    /\ cfgs = <<>>
    /\ engineLog = [setParams |-> 0, stopEvents |-> 0]
    /\ call = [op |-> "NewEngine", key |-> <<"", "">>, req |-> NoRequest, serial |-> 0]
    /\ published = NoOrder

\* ------------------------------------------------------------------------
\* Spec: any caller applies any bar to the store.

Init ==
    /\ InitStore
    /\ InitPipe
    /\ NewEngine
    /\ InitApi
    /\ NewCentralLedger
    /\ InitLock
    /\ InitOther
    /\ feedPending = {}
    /\ feedOrder = <<>>
    /\ accepted = <<>>

Next ==
    \/ \E bar \in HistoricalBars :
          UpdateHistoricalBar(bar)
            /\ UNCHANGED <<ticks, accountInfo, applied, feedVars, pipeVars, engineVars, apiVars, ledgerVars, lockVars, otherVars>>
    \/ \E bar \in LiveBars :
          UpdateLiveBar(bar)
            /\ UNCHANGED <<ticks, accountInfo, applied, feedVars, pipeVars, engineVars, apiVars, ledgerVars, lockVars, otherVars>>

Spec == Init /\ [][Next]_vars

\* ------------------------------------------------------------------------
\* SpecFeed: NumFeed historical bars with distinct timestamps are delivered
\* to an empty store, one UpdateHistoricalBar call each, in any order.

InitFeed ==
    /\ InitStore
    /\ InitPipe
    /\ NewEngine
    /\ InitApi
    /\ NewCentralLedger
    /\ InitLock
    /\ InitOther
    /\ \E a \in FeedSeqAssignments : feedPending = {FeedBar(a, i) : i \in 1..NumFeed}
    /\ feedOrder = <<>>
    /\ accepted = <<>>

FeedDeliver ==
    \E bar \in feedPending :
        /\ UpdateHistoricalBar(bar)
        /\ feedPending' = feedPending \ {bar}
        /\ feedOrder' = Append(feedOrder, bar)
        /\ UNCHANGED <<ticks, accountInfo, applied, pipeVars, accepted, engineVars, apiVars, ledgerVars, lockVars, otherVars>>

NextFeed == FeedDeliver

SpecFeed == InitFeed /\ [][NextFeed]_vars

\* ------------------------------------------------------------------------
\* SpecPipe: the transport hands deliveries to the four Enqueue functions
\* while the workers started by MessageHandler.Start drain the channels.

\* isStale: time.Now().UnixMilli() - producedAt > staleMessageThreshold
isStale_Reversed(producedAt) == producedAt - now > staleMessageThreshold

isStale(producedAt) == now - producedAt > staleMessageThreshold

NewEntry(class, nacks, outcome) ==
    [class |-> class, acks |-> 0, nacks |-> nacks, requeue |-> FALSE, outcome |-> outcome]

\* delivery.Ack(false)
Ack_Twice(l, id, outcome) == [l EXCEPT ![id].acks = @ + 2, ![id].outcome = outcome]

Ack(l, id, outcome) == [l EXCEPT ![id].acks = @ + 1, ![id].outcome = outcome]

\* delivery.Nack(false, false): the second argument is requeue.
Nack_Requeue(l, id, outcome) ==
    [l EXCEPT ![id].nacks = @ + 1, ![id].requeue = TRUE, ![id].outcome = outcome]

Nack(l, id, outcome) ==
    [l EXCEPT ![id].nacks = @ + 1, ![id].requeue = FALSE, ![id].outcome = outcome]

\* The select of each Enqueue function, with what the full-channel default
\* branch does as a parameter:
\*   case ch <- delivery:   (ready when the channel has room)
\*   case <-stopChannel:    (ready once Stop closed it) return
\*   default:               (taken only when neither is ready) Nack(false, false)
\* When several cases are ready, Go picks one of them at random.
\* The default branch without its Nack call.
Enqueue_DropsWhenFull(class, body) ==
    /\ class \in traffic
    /\ Len(log) < MaxDeliveries
    /\ LET d == [id |-> Len(log) + 1, class |-> class, body |-> body] IN
        \/ /\ Len(channel[class]) < ChannelSize(class)
           /\ channel' = [channel EXCEPT ![class] = Append(@, d)]
           /\ log' = Append(log, NewEntry(class, 0, "queued"))
        \/ /\ stopped \/ Len(channel[class]) >= ChannelSize(class)
           /\ log' = Append(log, NewEntry(class, 0, "dropped"))
           /\ UNCHANGED channel
    /\ UNCHANGED <<storeVars, stopped, now, hold, exited, traffic, engineVars, apiVars, ledgerVars, lockVars, otherVars>>

Enqueue(class, body) ==
    /\ class \in traffic
    /\ Len(log) < MaxDeliveries
    /\ LET d == [id |-> Len(log) + 1, class |-> class, body |-> body] IN
        \/ /\ Len(channel[class]) < ChannelSize(class)
           /\ channel' = [channel EXCEPT ![class] = Append(@, d)]
           /\ log' = Append(log, NewEntry(class, 0, "queued"))
        \/ /\ stopped
           /\ log' = Append(log, NewEntry(class, 0, "dropped"))
           /\ UNCHANGED channel
        \/ /\ ~stopped
           /\ Len(channel[class]) >= ChannelSize(class)
           /\ log' = Append(log, NewEntry(class, 1, "rejected"))
           /\ UNCHANGED channel
    /\ UNCHANGED <<storeVars, stopped, now, hold, exited, traffic, engineVars, apiVars, ledgerVars, lockVars, otherVars>>

EnqueueTick ==
    \E body \in TickBodies(now, Len(log) + 1) : Enqueue("tick", body) /\ UNCHANGED feedVars

EnqueueBar ==
    \E body \in BarBodies(now, Len(log) + 1) : Enqueue("bar", body) /\ UNCHANGED feedVars

EnqueueHistorical ==
    \E body \in HistoricalBodies(now, Len(log) + 1) :
        Enqueue("historical", body) /\ UNCHANGED feedVars

EnqueueAccount ==
    \E body \in AccountBodies(now, Len(log) + 1) :
        Enqueue("account", body) /\ UNCHANGED feedVars

\* A receive from a Go channel takes the value sent first: the value and
\* what stays in the channel.
ChannelReceive_Newest(q) == [value |-> q[Len(q)], rest |-> SubSeq(q, 1, Len(q) - 1)]

ChannelReceive(q) == [value |-> Head(q), rest |-> Tail(q)]

\* case delivery := <-mh.xChannel in a worker's loop
WorkerReceive(w) ==
    /\ w \notin exited
    /\ hold[w] = NoDelivery
    /\ channel[w[1]] # <<>>
    /\ hold' = [hold EXCEPT ![w] = ChannelReceive(channel[w[1]]).value]
    /\ channel' = [channel EXCEPT ![w[1]] = ChannelReceive(@).rest]
    /\ UNCHANGED <<storeVars, feedVars, stopped, now, exited, log, traffic, engineVars, apiVars, ledgerVars, lockVars, otherVars>>

\* case <-mh.stopChannel in a worker's loop: return.  The workers of a class
\* without traffic never leave their select before Stop; their return is
\* not tracked.
WorkerReturn(w) ==
    /\ stopped
    /\ w[1] \in traffic
    /\ w \notin exited
    /\ hold[w] = NoDelivery
    /\ exited' = exited \cup {w}
    /\ UNCHANGED <<storeVars, feedVars, channel, stopped, now, hold, log, traffic, engineVars, apiVars, ledgerVars, lockVars, otherVars>>

Processing(w, class) == w[1] = class /\ hold[w] # NoDelivery

Done(w) == hold' = [hold EXCEPT ![w] = NoDelivery]

processTick(w) ==
    /\ Processing(w, "tick")
    /\ LET d == hold[w] IN
        IF ~d.body.ok
        THEN log' = Nack(log, d.id, "malformed") /\ UNCHANGED <<ticks, applied>>
        ELSE IF isStale(d.body.msg.ProducedAt)
        THEN log' = Ack(log, d.id, "stale") /\ UNCHANGED <<ticks, applied>>
        ELSE UpdateTick(d.body.msg) /\ log' = Ack(log, d.id, "applied")
    /\ Done(w)
    /\ UNCHANGED <<historicalBars, last, accountInfo, feedVars, channel, stopped, now, exited, traffic, engineVars, apiVars, ledgerVars, lockVars, otherVars>>

processBar(w) ==
    /\ Processing(w, "bar")
    /\ LET d == hold[w] IN
        IF ~d.body.ok
        THEN log' = Nack(log, d.id, "malformed") /\ UNCHANGED <<historicalBars, last>>
        ELSE IF isStale(d.body.msg.ProducedAt)
        THEN log' = Ack(log, d.id, "stale") /\ UNCHANGED <<historicalBars, last>>
        ELSE UpdateLiveBar(d.body.msg) /\ log' = Ack(log, d.id, "applied")
    /\ Done(w)
    /\ UNCHANGED <<ticks, applied, accountInfo, feedVars, channel, stopped, now, exited, traffic, engineVars, apiVars, ledgerVars, lockVars, otherVars>>

\* No isStale test here: a historical bar is applied whatever its produced_at.
processHistoricalBar(w) ==
    /\ Processing(w, "historical")
    /\ LET d == hold[w] IN
        IF ~d.body.ok
        THEN log' = Nack(log, d.id, "malformed") /\ UNCHANGED <<historicalBars, last>>
        ELSE UpdateHistoricalBar(d.body.msg) /\ log' = Ack(log, d.id, "applied")
    /\ Done(w)
    /\ UNCHANGED <<ticks, applied, accountInfo, feedVars, channel, stopped, now, exited, traffic, engineVars, apiVars, ledgerVars, lockVars, otherVars>>

processAccountInfo(w) ==
    /\ Processing(w, "account")
    /\ LET d == hold[w] IN
        IF ~d.body.ok
        THEN log' = Nack(log, d.id, "malformed") /\ UNCHANGED accountInfo
        ELSE IF isStale(d.body.msg.ProducedAt)
        THEN log' = Ack(log, d.id, "stale") /\ UNCHANGED accountInfo
        ELSE UpdateAccountInfo(d.body.msg) /\ log' = Ack(log, d.id, "applied")
    /\ Done(w)
    /\ UNCHANGED <<historicalBars, last, ticks, applied, feedVars, channel, stopped, now, exited, traffic, engineVars, apiVars, ledgerVars, lockVars, otherVars>>

\* MessageHandler.Stop: close(mh.stopChannel)
Stop ==
    /\ ~stopped
    /\ stopped' = TRUE
    /\ UNCHANGED <<storeVars, feedVars, channel, now, hold, exited, log, traffic, engineVars, apiVars, ledgerVars, lockVars, otherVars>>

\* time passes
ClockTick ==
    /\ now < MaxNow
    /\ now' = now + 1
    /\ UNCHANGED <<storeVars, feedVars, channel, stopped, hold, exited, log, traffic, engineVars, apiVars, ledgerVars, lockVars, otherVars>>

InitPipeline ==
    /\ InitStore
    /\ InitPipe
    /\ NewEngine
    /\ InitApi
    /\ NewCentralLedger
    /\ InitLock
    /\ InitOther
    /\ feedPending = {}
    /\ feedOrder = <<>>
    /\ accepted = <<>>

NextPipe ==
    \/ EnqueueTick
    \/ EnqueueBar
    \/ EnqueueHistorical
    \/ EnqueueAccount
    \/ \E w \in Workers : WorkerReceive(w)
    \/ \E w \in Workers : WorkerReturn(w)
    \/ \E w \in Workers : processTick(w)
    \/ \E w \in Workers : processBar(w)
    \/ \E w \in Workers : processHistoricalBar(w)
    \/ \E w \in Workers : processAccountInfo(w)
    \/ Stop
    \/ ClockTick

SpecPipe == InitPipeline /\ [][NextPipe]_vars

\* SpecSettle: the live-bar pipeline alone, its three workers competing for
\* the deliveries of one channel.  A worker at its select takes a case that
\* stays ready, and a process function runs to its return.
InitSettle == InitPipeline /\ traffic = {"bar"}

\* The deliveries are malformed or carry the live bar ending at 1.
SettleBodies(t) ==
    {Malformed,
     Body([Instrument |-> "EURUSD", Period |-> "ONE_MIN", ProducedAt |-> t,
           BarEndTimestamp |-> 1])}

\* Deliveries of the scenario: one more than the bar channel holds.
SettleDeliveries == barChannelSize + 1

NextSettle ==
    \/ \E body \in SettleBodies(now) :
          Len(log) < SettleDeliveries /\ Enqueue("bar", body) /\ UNCHANGED feedVars
    \/ \E w \in Workers : WorkerReceive(w)
    \/ \E w \in Workers : WorkerReturn(w)
    \/ \E w \in Workers : processBar(w)
    \/ Stop
    \/ ClockTick

SettleFairness ==
    \A w \in {v \in Workers : v[1] = "bar"} :
       /\ WF_vars(WorkerReceive(w))
       /\ WF_vars(WorkerReturn(w))
       /\ WF_vars(processBar(w))

SpecSettle == InitSettle /\ [][NextSettle]_vars /\ SettleFairness

\* ------------------------------------------------------------------------
\* SpecOverflow: MaxDeliveries = tickChannelSize + 1 parseable ticks (1001
\* against a channel of 1000) are handed to EnqueueTick before the tick worker
\* receives the first of them; the worker then drains the channel.  The
\* handler is not stopped during the scenario.

TickWorker == <<"tick", 0>>

InitOverflow ==
    /\ InitStore
    /\ InitPipe
    /\ NewEngine
    /\ InitApi
    /\ NewCentralLedger
    /\ InitLock
    /\ InitOther
    /\ traffic = {"tick"}
    /\ feedPending = {}
    /\ feedOrder = <<>>
    /\ accepted = <<>>

OverflowEnqueueTick ==
    \E body \in TickBodies(now, Len(log) + 1) \ {Malformed} :
        /\ Enqueue("tick", body)
        /\ accepted' = IF channel' # channel THEN Append(accepted, body.msg) ELSE accepted
        /\ UNCHANGED <<feedPending, feedOrder>>

OverflowReceive ==
    /\ Len(log) = MaxDeliveries
    /\ WorkerReceive(TickWorker)

NextOverflow ==
    \/ OverflowEnqueueTick
    \/ OverflowReceive
    \/ processTick(TickWorker)
    \/ ClockTick

SpecOverflow == InitOverflow /\ [][NextOverflow]_vars

\* ------------------------------------------------------------------------
\* The strategy engine: StartStrategyWithParams, StopStrategy and the polling
\* task (Engine.loop) of every run.

\* Guardrails of StartStrategyWithParams.
GuardQty_Unbounded(qty) == IF qty <= 0 THEN 10 ELSE qty

GuardQty(qty) == IF qty <= 0 THEN 10 ELSE IF qty > 10000 THEN 10000 ELSE qty

GuardAtrMult(atrMult) == IF atrMult <= 0 THEN 1 ELSE IF atrMult > 20 THEN 20 ELSE atrMult

newRunID == Len(cfgs) + 1

\* cfg, ok := e.runs[key]
Lookup_MostRecent(key) == [cfg |-> Len(cfgs), ok |-> Len(cfgs) > 0]

Lookup(key) == [cfg |-> runs[key], ok |-> runs[key] # 0]

\* _, ok := e.runs[key]
HasRun_Never(key) == FALSE

HasRun(key) == runs[key] # 0

\* delete(e.runs, key)
Delete_Keep(rs, key) == rs

Delete(rs, key) == [rs EXCEPT ![key] = 0]

\* &runConfig{...}: the fields of the source, then the state of the polling
\* task that go e.loop(cfg) launches on it: the stop channel (how many
\* StopStrategy calls hold the config on their way to close it, how often it
\* was closed), whether the task runs, its lastSeq, how often it evaluated
\* the bar of each end time, and the parity of its ticker.
runConfig(key, req) ==
    [key |-> key, strategy |-> req.strategy, runID |-> newRunID,
     qty |-> GuardQty(req.qty), atrMult |-> GuardAtrMult(req.atrMult),
     params |-> req.params, running |-> TRUE,
     lastSignal |-> "", lastActionAt |-> ZeroTime, signal |-> "",
     closers |-> 0, closes |-> 0, pc |-> "running",
     lastSeq |-> -1, evaluated |-> [ts \in 1..MaxTs |-> 0], polls |-> 0]

NewCall(op, key, req) == [op |-> op, key |-> key, req |-> req, serial |-> 1 - call.serial]

\* StartStrategyWithParams, the whole body under e.mu.
StartStrategyWithParams(key, req) ==
    /\ call' = NewCall("Start", key, req)
    /\ IF HasRun(key)
       THEN UNCHANGED <<runs, cfgs, engineLog>>
       ELSE /\ Len(cfgs) < MaxRuns
            /\ cfgs' = Append(cfgs, runConfig(key, req))
            /\ runs' = [runs EXCEPT ![key] = newRunID]
            /\ engineLog' =
                 IF Parametrizable(req.strategy) /\ req.params # NoParams
                 THEN [engineLog EXCEPT !.setParams = @ + 1] ELSE engineLog
    /\ UNCHANGED published

\* StopStrategy up to e.mu.Unlock(): look the run up and delete it.
StopStrategyLocked(key) ==
    /\ call' = NewCall("Stop", key, NoRequest)
    /\ IF Lookup(key).ok
       THEN /\ runs' = Delete(runs, key)
            /\ cfgs' = [cfgs EXCEPT ![Lookup(key).cfg].closers = @ + 1]
       ELSE UNCHANGED <<runs, cfgs>>
    /\ UNCHANGED <<engineLog, published>>

\* StopStrategy after the unlock, when a run was found: close(cfg.stop) and
\* the stop event.
StopStrategyClose(id) ==
    /\ id \in 1..Len(cfgs)
    /\ cfgs[id].closers > 0
    /\ cfgs' = [cfgs EXCEPT ![id].closers = @ - 1, ![id].closes = @ + 1]
    /\ engineLog' = [engineLog EXCEPT !.stopEvents = @ + 1]
    /\ UNCHANGED <<runs, call, published>>

\* GetHistoricalBars: a copy of the series of the key.
GetHistoricalBars(key) == historicalBars[key]

\* strings.Contains(instrument, "JPY")
getPipSize(instrument) == IF instrument \in JPYInstruments THEN 10000 ELSE 100

\* slPips, in hundredths of a pip: atrMult * (atr / pip), at least one pip,
\* ten pips when the bar carries no ATR.
SlPips(atrMult, atr, pip) ==
    IF atr > 0
    THEN LET p == atrMult * ((atr * 100) \div pip) IN IF p < 100 THEN 100 ELSE p
    ELSE 1000

\* The order the loop prepares from the bar at index 0.
TradeCommand(cfg, sig, latest) ==
    LET pip == getPipSize(cfg.key[1])
        atr == IF latest.BidAtr <= 0 THEN AskAtr(latest) ELSE latest.BidAtr
        dist == (SlPips(cfg.atrMult, atr, pip) * pip) \div 100
        price == (BidClose(latest) + AskClose(latest)) \div 2
    IN [Instrument |-> cfg.key[1], OrderCmd |-> sig, Amount |-> cfg.qty,
        Price |-> 0, Slippage |-> 5,
        StopLossPrice |-> IF sig = SignalBuy THEN price - dist ELSE price + dist,
        TakeProfitPrice |-> IF sig = SignalBuy THEN price + dist ELSE price - dist,
        serial |-> 1 - published.serial]

Bump(n) == IF n < 2 THEN n + 1 ELSE n

\* if sig == SignalNone { continue }: does the loop go on to the order?
Acts_Always(sig) == TRUE

Acts(sig) == sig # SignalNone

\* is the bar at index 0 the one the task saw last?
SameAsLast(cfg, latest) == latest.Sequence = cfg.lastSeq

\* case <-t.C of Engine.loop: one poll.  Evaluate is the strategy's decision
\* function, any signal.
LoopPoll(id) ==
    /\ id \in 1..Len(cfgs)
    /\ cfgs[id].pc = "running"
    /\ LET cfg == cfgs[id]
           series == GetHistoricalBars(cfg.key)
       IN IF Len(series) = 0 \/ SameAsLast(cfg, series[1])
          THEN /\ cfgs' = [cfgs EXCEPT ![id].polls = 1 - @]
               /\ UNCHANGED published
          ELSE \E sig \in Signals :
                 /\ cfgs' = [cfgs EXCEPT
                       ![id].polls = 1 - @,
                       ![id].lastSeq = series[1].Sequence,
                       ![id].evaluated[series[1].BarEndTimestamp] = Bump(@),
                       ![id].signal = sig,
                       ![id].lastSignal = IF Acts(sig) THEN sig ELSE @,
                       ![id].lastActionAt = IF Acts(sig) THEN now ELSE @]
                 /\ published' = IF Acts(sig) THEN TradeCommand(cfg, sig, series[1])
                                 ELSE published
    /\ UNCHANGED <<runs, engineLog, call>>

\* The stop case of the select never taken.
LoopReturn_Ignored(id) == LoopPoll(id)

\* case <-cfg.stop of Engine.loop: return.
LoopReturn(id) ==
    /\ id \in 1..Len(cfgs)
    /\ cfgs[id].pc = "running"
    /\ cfgs[id].closes > 0
    /\ cfgs' = [cfgs EXCEPT ![id].pc = "exited"]
    /\ UNCHANGED <<runs, engineLog, call, published>>

\* Statuses listing every runConfig ever made.
Statuses_EveryConfig ==
    {[Instrument |-> cfgs[id].key[1], Period |-> cfgs[id].key[2], Key |-> cfgs[id].strategy,
      Running |-> cfgs[id].running, LastSignal |-> cfgs[id].lastSignal] : id \in 1..Len(cfgs)}

\* Statuses: one entry per registered run.
Statuses ==
    {[Instrument |-> cfgs[runs[k]].key[1], Period |-> cfgs[runs[k]].key[2],
      Key |-> cfgs[runs[k]].strategy, Running |-> cfgs[runs[k]].running,
      LastSignal |-> cfgs[runs[k]].lastSignal] : k \in {j \in Keys : runs[j] # 0}}

\* SpecEngine: callers start and stop strategies concurrently while the
\* polling tasks run; the store stays empty.
InitEngine ==
    /\ InitStore
    /\ InitPipe
    /\ traffic = {"tick"}
    /\ NewEngine
    /\ InitApi
    /\ NewCentralLedger
    /\ InitLock
    /\ InitOther
    /\ feedPending = {}
    /\ feedOrder = <<>>
    /\ accepted = <<>>

EngineFrame == UNCHANGED <<storeVars, feedVars, pipeVars, apiVars, ledgerVars, lockVars, otherVars>>

NextEngine ==
    \/ \E key \in Keys, req \in StartRequests : StartStrategyWithParams(key, req) /\ EngineFrame
    \/ \E key \in Keys : StopStrategyLocked(key) /\ EngineFrame
    \/ \E id \in 1..MaxRuns : StopStrategyClose(id) /\ EngineFrame
    \/ \E id \in 1..MaxRuns : LoopPoll(id) /\ EngineFrame
    \/ \E id \in 1..MaxRuns : LoopReturn(id) /\ EngineFrame

SpecEngine == InitEngine /\ [][NextEngine]_vars

\* A StopStrategy call that found its run goes on to close the stop channel,
\* and a polling task whose stop channel is closed goes on to take that case
\* of its select.
EngineFairness ==
    /\ \A id \in 1..MaxRuns : WF_vars(StopStrategyClose(id) /\ EngineFrame)
    /\ \A id \in 1..MaxRuns : WF_vars(LoopReturn(id) /\ EngineFrame)

SpecEngineFair == SpecEngine /\ EngineFairness

\* ------------------------------------------------------------------------
\* SpecPoll: a strategy is started on EURUSD / ONE_MIN and its polling task
\* runs while historical and live bars of a few end times reach the store.

PollTimestamps == 1..(MaxTs - 2)

\* Historical bars as the requester sends them: numbered from 1, with an ATR
\* of 0.0010.
PollBars ==
    [Instrument : Instruments, Period : Periods, ProducedAt : {0},
     BarEndTimestamp : PollTimestamps, Sequence : {1, 2}, BidAtr : {1000},
     AskAtr : {1000}]

PollLiveBars ==
    [Instrument : Instruments, Period : Periods, ProducedAt : {0},
     BarEndTimestamp : PollTimestamps]

PollRequests ==
    {r \in StartRequests : r.strategy = "DEMA_RSI" /\ r.params = NoParams}

InitPoll ==
    /\ InitStore
    /\ InitPipe
    /\ traffic = {"bar"}
    /\ NewEngine
    /\ InitApi
    /\ NewCentralLedger
    /\ InitLock
    /\ InitOther
    /\ feedPending = {}
    /\ feedOrder = <<>>
    /\ accepted = <<>>

PollFrame ==
    UNCHANGED <<ticks, accountInfo, applied, feedVars, pipeVars, apiVars, ledgerVars, lockVars, otherVars>>

NextPoll ==
    \/ \E key \in Keys, req \in PollRequests :
          StartStrategyWithParams(key, req) /\ PollFrame /\ UNCHANGED <<historicalBars, last>>
    \/ \E bar \in PollBars : UpdateHistoricalBar(bar) /\ PollFrame /\ UNCHANGED engineVars
    \/ \E bar \in PollLiveBars : UpdateLiveBar(bar) /\ PollFrame /\ UNCHANGED engineVars
    \/ \E id \in 1..MaxRuns :
          LoopPoll(id) /\ PollFrame /\ UNCHANGED <<historicalBars, last>>

SpecPoll == InitPoll /\ [][NextPoll]_vars

\* The ticker of a running polling task fires every second.
PollFairness ==
    \A id \in 1..MaxRuns :
        WF_vars(LoopPoll(id) /\ PollFrame /\ UNCHANGED <<historicalBars, last>>)

SpecPollFair == SpecPoll /\ PollFairness

\* ------------------------------------------------------------------------
\* SpecStop: strategies are started and stopped on EURUSD / ONE_MIN while
\* historical bars reach the store and the polling tasks run.

\* The historical bars of two end times, numbered by their end time.
StopBars ==
    {b \in [Instrument : Instruments, Period : Periods, ProducedAt : {0},
            BarEndTimestamp : {1, 2}, Sequence : {1, 2}, BidAtr : {1000},
            AskAtr : {1000}] : b.Sequence = b.BarEndTimestamp}

NextStop ==
    \/ \E key \in Keys, req \in PollRequests :
          StartStrategyWithParams(key, req) /\ PollFrame /\ UNCHANGED <<historicalBars, last>>
    \/ \E key \in Keys :
          StopStrategyLocked(key) /\ PollFrame /\ UNCHANGED <<historicalBars, last>>
    \/ \E id \in 1..MaxRuns :
          StopStrategyClose(id) /\ PollFrame /\ UNCHANGED <<historicalBars, last>>
    \/ \E bar \in StopBars : UpdateHistoricalBar(bar) /\ PollFrame /\ UNCHANGED engineVars
    \/ \E id \in 1..MaxRuns :
          LoopPoll(id) /\ PollFrame /\ UNCHANGED <<historicalBars, last>>
    \/ \E id \in 1..MaxRuns :
          LoopReturn(id) /\ PollFrame /\ UNCHANGED <<historicalBars, last>>

SpecStop == InitPoll /\ [][NextStop]_vars

\* ------------------------------------------------------------------------
\* SpecRace: Statuses and the polling task's record of its action, taken
\* step by step: each read or write of a run's lastSignal / lastActionAt has
\* a begin and an end, and e.mu is held by whoever locked it.

\* an access to the fields of run id, and whether its goroutine holds e.mu
Access(by, id, kind) == [by |-> by, run |-> id, kind |-> kind, locked |-> emu = by]

\* e.mu.Lock() in Statuses
StatusesLock ==
    /\ emu = "none"
    /\ emu' = "Statuses"
    /\ UNCHANGED accesses

\* Statuses' loop body for one registered run: LastSignal: string(cfg.lastSignal),
\* LastActionAt: cfg.lastActionAt...
StatusesReadBegin(id) ==
    /\ emu = "Statuses"
    /\ id \in 1..Len(cfgs)
    /\ runs[cfgs[id].key] = id
    /\ \A a \in accesses : a.by # "Statuses"
    /\ accesses' = accesses \cup {Access("Statuses", id, "read")}
    /\ UNCHANGED emu

StatusesReadEnd(id) ==
    /\ \E a \in accesses : a.by = "Statuses" /\ a.run = id
    /\ accesses' = {a \in accesses : a.by # "Statuses"}
    /\ UNCHANGED emu

\* defer e.mu.Unlock() in Statuses
StatusesUnlock ==
    /\ emu = "Statuses"
    /\ \A a \in accesses : a.by # "Statuses"
    /\ emu' = "none"
    /\ UNCHANGED accesses

\* The polling task between two writes of its own.
LoopIdle(id) == \A a \in accesses : ~(a.by = "loop" /\ a.run = id)

\* One poll of Engine.loop that ends before the order: no bar, a bar seen
\* before, or SignalNone.
LoopPollQuiet(id) ==
    /\ LoopIdle(id)
    /\ LoopPoll(id)
    /\ published' = published
    /\ UNCHANGED raceVars

\* One poll of Engine.loop that reaches cfg.lastSignal = sig;
\* cfg.lastActionAt = time.Now(): the write begins.
LoopWriteBegin(id) ==
    /\ LoopIdle(id)
    /\ LoopPoll(id)
    /\ published' # published
    /\ accesses' = accesses \cup {Access("loop", id, "write")}
    /\ UNCHANGED emu

LoopWriteEnd(id) ==
    /\ ~LoopIdle(id)
    /\ accesses' = {a \in accesses : ~(a.by = "loop" /\ a.run = id)}
    /\ UNCHANGED emu

RaceFrame ==
    UNCHANGED <<ticks, accountInfo, applied, feedVars, pipeVars, apiVars, ledgerVars,
                lockVars, strategyVars, hubVars>>

NextRace ==
    \/ \E key \in Keys, req \in PollRequests :
          /\ emu = "none"
          /\ StartStrategyWithParams(key, req)
          /\ RaceFrame /\ UNCHANGED <<historicalBars, last, raceVars>>
    \/ \E bar \in StopBars :
          UpdateHistoricalBar(bar) /\ RaceFrame /\ UNCHANGED <<engineVars, raceVars>>
    \/ StatusesLock /\ RaceFrame /\ UNCHANGED <<historicalBars, last, engineVars>>
    \/ \E id \in 1..MaxRuns :
          StatusesReadBegin(id) /\ RaceFrame /\ UNCHANGED <<historicalBars, last, engineVars>>
    \/ \E id \in 1..MaxRuns :
          StatusesReadEnd(id) /\ RaceFrame /\ UNCHANGED <<historicalBars, last, engineVars>>
    \/ StatusesUnlock /\ RaceFrame /\ UNCHANGED <<historicalBars, last, engineVars>>
    \/ \E id \in 1..MaxRuns :
          LoopPollQuiet(id) /\ RaceFrame /\ UNCHANGED <<historicalBars, last>>
    \/ \E id \in 1..MaxRuns :
          LoopWriteBegin(id) /\ RaceFrame /\ UNCHANGED <<historicalBars, last>>
    \/ \E id \in 1..MaxRuns :
          LoopWriteEnd(id) /\ RaceFrame /\ UNCHANGED <<historicalBars, last, engineVars>>

SpecRace == InitPoll /\ [][NextRace]_vars

\* ------------------------------------------------------------------------
\* SpecHub: clients send commands into Hub.Commands while Hub.Run and
\* FrontendBroadcaster.Start both receive from it, and ticks reach the store.

\* Tick.Bid and Tick.Ask, in millionths.
TickBid(tick) == 1100000 + 100 * tick.Timestamp
TickAsk(tick) == TickBid(tick) + 20

\* Hub.SendCommand: h.Commands <- command.  The channel is unbuffered: the
\* sender blocks until a receiver takes the command.
SendCommand(cmd) ==
    /\ Len(hub.cmds) < MaxCommands
    /\ hub' = [hub EXCEPT !.cmds = Append(@, cmd), !.pending = @ \cup {Len(hub.cmds) + 1}]

\* Hub.Run, case command := <-h.Commands: the command is logged.
HubRun(id) ==
    /\ id \in hub.pending
    /\ hub' = [hub EXCEPT !.pending = @ \ {id}, !.dropped = @ \cup {id}]

\* fb.stateManager.GetTicks(req.Instrument)
TicksOf(instrument) == ticks[instrument]

\* case "PLACE_ORDER" of processCommand, after the validity test: the market
\* order from the last tick, or the panic of ticks[len(ticks)-1] on an empty
\* slice, which nothing recovers.
PlaceOrder(req) ==
    LET pip == getPipSize(req.Instrument)
        tks == TicksOf(req.Instrument)
    IN IF Len(tks) = 0
       THEN [panic |-> TRUE, cmd |-> published]
       ELSE LET lastTick == tks[Len(tks)]
                entry == IF req.Side = "SELL" THEN TickBid(lastTick) ELSE TickAsk(lastTick)
                sl == IF req.SlPips > 0
                      THEN IF req.Side = "BUY" THEN entry - req.SlPips * pip
                           ELSE entry + req.SlPips * pip
                      ELSE 0
            IN [panic |-> FALSE,
                cmd |-> [Instrument |-> req.Instrument, OrderCmd |-> req.Side,
                         Amount |-> req.Qty, Price |-> 0, Slippage |-> 5,
                         StopLossPrice |-> sl, TakeProfitPrice |-> 0,
                         serial |-> 1 - published.serial]]

\* The request STRATEGY_START hands to the engine: DEMA_RSI by default,
\* qty <= 0 becomes 0.10 and atrMult <= 0 becomes 1.0.
StartRequestOf(req) ==
    [strategy |-> "DEMA_RSI", qty |-> IF req.Qty <= 0 THEN 10 ELSE req.Qty,
     atrMult |-> 1, params |-> NoParams]

\* The validity test of case "PLACE_ORDER".
ValidOrder(req) ==
    req.Instrument # "" /\ req.Side \in {"BUY", "SELL"} /\ req.Qty > 0

\* FrontendBroadcaster.processCommand: what the command does to the engine
\* and to the published order.
fbProcessCommand(req) ==
    CASE req.Type = "STRATEGY_START" ->
            StartStrategyWithParams(<<req.Instrument, "ONE_MIN">>, StartRequestOf(req))
      [] req.Type = "STRATEGY_STOP" ->
            StopStrategyLocked(<<req.Instrument, "ONE_MIN">>)
      [] req.Type = "PLACE_ORDER" ->
            IF ValidOrder(req)
            THEN /\ published' = PlaceOrder(req).cmd
                 /\ UNCHANGED <<runs, cfgs, engineLog, call>>
            ELSE UNCHANGED engineVars

\* Whether processCommand panics on the command.
Panics(req) ==
    req.Type = "PLACE_ORDER" /\ ValidOrder(req) /\ PlaceOrder(req).panic

\* FrontendBroadcaster.Start, case command := <-fb.hub.Commands:
\* fb.processCommand(command).  The StopStrategy of an earlier command has
\* returned.
BroadcasterStart(id) ==
    /\ id \in hub.pending
    /\ \A r \in 1..Len(cfgs) : cfgs[r].closers = 0
    /\ fbProcessCommand(hub.cmds[id])
    /\ hub' = [hub EXCEPT !.pending = @ \ {id}, !.processed = Append(@, id),
                          !.crashed = Panics(hub.cmds[id])]

HubTicks == [Instrument : {"EURUSD"}, ProducedAt : {0}, Timestamp : {1, 2}]

HubFrame ==
    UNCHANGED <<feedVars, pipeVars, apiVars, ledgerVars, lockVars, strategyVars, raceVars>>

\* An unrecovered panic ends the process: nothing runs after it.
NextHub ==
    /\ ~hub.crashed
    /\ \/ \E cmd \in HubCommands :
             SendCommand(cmd) /\ HubFrame /\ UNCHANGED <<storeVars, engineVars>>
       \/ \E id \in 1..MaxCommands :
             HubRun(id) /\ HubFrame /\ UNCHANGED <<storeVars, engineVars>>
       \/ \E id \in 1..MaxCommands :
             BroadcasterStart(id) /\ HubFrame /\ UNCHANGED storeVars
       \/ \E id \in 1..MaxRuns :
             StopStrategyClose(id) /\ HubFrame /\ UNCHANGED <<storeVars, hubVars>>
       \/ \E tick \in HubTicks :
             /\ Len(applied[tick.Instrument]) < tickRingBufferSize
             /\ UpdateTick(tick)
             /\ HubFrame /\ UNCHANGED <<historicalBars, last, accountInfo, engineVars, hubVars>>

SpecHub == InitEngine /\ [][NextHub]_vars

\* ------------------------------------------------------------------------
\* SpecGuard: strategies are started with quantities and multipliers below,
\* at, inside and above the guardrails, and the polling task turns bars with
\* small and large ATRs into orders.

GuardQtys == {0 - 5, 0, 20, 10000, 10001}
GuardAtrMults == {0 - 1, 0, 1, 20, 21}

\* Every quantity and every multiplier occurs in one request.
GuardPairs == {<<0 - 5, 21>>, <<0, 20>>, <<20, 1>>, <<10000, 0 - 1>>, <<10001, 0>>}

GuardRequests ==
    {r \in [strategy : {"DEMA_RSI"}, qty : GuardQtys, atrMult : GuardAtrMults,
            params : {NoParams}] : <<r.qty, r.atrMult>> \in GuardPairs}

\* ATRs in millionths: on the bid side absent, 0.00003 (less than a pip when
\* multiplied by 1) and 0.0010; 0.00005 on the ask side.
GuardBars ==
    [Instrument : Instruments, Period : Periods, ProducedAt : {0},
     BarEndTimestamp : {1}, Sequence : {1, 2}, BidAtr : {0, 30, 1000},
     AskAtr : {50}]

NextGuard ==
    \/ \E key \in Keys, req \in GuardRequests :
          StartStrategyWithParams(key, req) /\ PollFrame /\ UNCHANGED <<historicalBars, last>>
    \/ \E bar \in GuardBars : UpdateHistoricalBar(bar) /\ PollFrame /\ UNCHANGED engineVars
    \/ \E id \in 1..MaxRuns :
          LoopPoll(id) /\ PollFrame /\ UNCHANGED <<historicalBars, last>>

SpecGuard == InitPoll /\ [][NextGuard]_vars

\* ------------------------------------------------------------------------
\* SpecOrder: the polling task of one run while bars with every kind of ATR
\* reach the store and time passes.

\* ATRs in millionths: absent and 0.0010 on the bid side; negative and
\* 0.0003 on the ask side.
OrderBidAtrs == {0, 1000}
OrderAskAtrs == {0 - 100, 300}

\* The historical bars of the latest end time, numbered 2 by the requester;
\* the live bars of every end time may reach the store before or after them.
OrderBars ==
    [Instrument : Instruments, Period : Periods, ProducedAt : {0},
     BarEndTimestamp : {MaxTs - 2}, Sequence : {2}, BidAtr : OrderBidAtrs,
     AskAtr : OrderAskAtrs]

NextOrder ==
    \/ \E key \in Keys, req \in PollRequests :
          StartStrategyWithParams(key, req) /\ PollFrame /\ UNCHANGED <<historicalBars, last>>
    \/ \E bar \in OrderBars : UpdateHistoricalBar(bar) /\ PollFrame /\ UNCHANGED engineVars
    \/ \E bar \in PollLiveBars : UpdateLiveBar(bar) /\ PollFrame /\ UNCHANGED engineVars
    \/ \E id \in 1..MaxRuns :
          LoopPoll(id) /\ PollFrame /\ UNCHANGED <<historicalBars, last>>
    \/ ClockTick

SpecOrder == InitPoll /\ [][NextOrder]_vars

\* ------------------------------------------------------------------------
\* SpecApi: writers update the store through its Update methods while a
\* caller reads it through the Get methods and writes to what it was handed.

\* Backing arrays json.Unmarshal allocates for Positions in one run.
MaxArrays == 2

\* A position, reduced to its PnL.
PositionLists == {<<>>, <<0>>}

ApiTick == [Instrument |-> "EURUSD", ProducedAt |-> 0, Timestamp |-> 1]

ApiLiveBars ==
    [Instrument : Instruments, Period : Periods, ProducedAt : {0},
     BarEndTimestamp : PollTimestamps]

ApiRingBars == {b \in ApiLiveBars : b.BarEndTimestamp = 1}

\* if len > barRingBufferSize { s = s[len-barRingBufferSize:] }
TrimBars(s) ==
    IF Len(s) > barRingBufferSize
    THEN SubSeq(s, Len(s) - barRingBufferSize + 1, Len(s)) ELSE s

UpdateBar(bar) == bars' = [bars EXCEPT ![KeyOf(bar)] = TrimBars(Append(@, bar))]

\* The Get methods: make + copy for the three slices, a struct copy for the
\* account snapshot, whose Positions field is a slice header.
GetTicks(instrument) == got' = [kind |-> "ticks", value |-> ticks[instrument]]

GetBars(key) == got' = [kind |-> "bars", value |-> bars[key]]

GetHistoricalBarsCall(key) == got' = [kind |-> "historical", value |-> GetHistoricalBars(key)]

GetAccountInfo ==
    /\ got' = [kind |-> "account", value |-> accountInfo]
    /\ UNCHANGED heap

\* An account message arrives: json.Unmarshal allocates the backing array of
\* its Positions, and the snapshot is stored.
ReceiveAccountInfo(positions) ==
    /\ Len(heap) < MaxArrays
    /\ heap' = Append(heap, positions)
    /\ UpdateAccountInfo([ProducedAt |-> 0, Timestamp |-> Len(heap) + 1,
                          Positions |-> Len(heap) + 1])

\* The caller writes to the value it holds: to an element of a slice it was
\* handed, to a field of the account struct, or to an element of the
\* account's Positions.
CallerWriteElement ==
    /\ got.kind \in {"ticks", "bars", "historical"}
    /\ got.value # <<>>
    /\ got' = [got EXCEPT !.value[1].ProducedAt = 1 - @]
    /\ UNCHANGED heap

CallerWriteField ==
    /\ got.kind = "account"
    /\ got' = [got EXCEPT !.value.ProducedAt = 1 - @]
    /\ UNCHANGED heap

CallerWritePosition ==
    /\ got.kind = "account"
    /\ got.value.Positions # 0
    /\ heap[got.value.Positions] # <<>>
    /\ heap' = [heap EXCEPT ![got.value.Positions][1] = 1 - @]
    /\ UNCHANGED got

InitApiSpec ==
    /\ InitStore
    /\ InitPipe
    /\ traffic = {"account"}
    /\ NewEngine
    /\ InitApi
    /\ NewCentralLedger
    /\ InitLock
    /\ InitOther
    /\ feedPending = {}
    /\ feedOrder = <<>>
    /\ accepted = <<>>

ApiFrame == UNCHANGED <<feedVars, pipeVars, engineVars, ledgerVars, lockVars, otherVars>>

NextApi ==
    \/ /\ Len(applied[ApiTick.Instrument]) < 1
       /\ UpdateTick(ApiTick)
       /\ UNCHANGED <<historicalBars, last, accountInfo, apiVars>> /\ ApiFrame
    \/ \E bar \in ApiRingBars :
          UpdateBar(bar)
            /\ UNCHANGED <<storeVars, heap, got>> /\ ApiFrame
    \/ \E bar \in ApiLiveBars :
          UpdateLiveBar(bar)
            /\ UNCHANGED <<ticks, applied, accountInfo, apiVars>> /\ ApiFrame
    \/ \E positions \in PositionLists :
          ReceiveAccountInfo(positions)
            /\ UNCHANGED <<historicalBars, last, ticks, applied, bars, got>> /\ ApiFrame
    \/ \E instrument \in {ApiTick.Instrument} :
          GetTicks(instrument) /\ UNCHANGED <<storeVars, bars, heap>> /\ ApiFrame
    \/ \E key \in Keys : GetBars(key) /\ UNCHANGED <<storeVars, bars, heap>> /\ ApiFrame
    \/ \E key \in Keys :
          GetHistoricalBarsCall(key) /\ UNCHANGED <<storeVars, bars, heap>> /\ ApiFrame
    \/ GetAccountInfo /\ UNCHANGED <<storeVars, bars>> /\ ApiFrame
    \/ CallerWriteElement /\ UNCHANGED <<storeVars, bars>> /\ ApiFrame
    \/ CallerWriteField /\ UNCHANGED <<storeVars, bars>> /\ ApiFrame
    \/ CallerWritePosition /\ UNCHANGED <<storeVars, bars>> /\ ApiFrame

SpecApi == InitApiSpec /\ [][NextApi]_vars

\* ------------------------------------------------------------------------
\* CentralLedger: the startup requests, the command processor and the health
\* checker.  The clock advances with the health checker's ticker; whatever
\* happens between two ticks carries the time of the earlier one.  The
\* messagesProcessed statistics of processCommand are left out.

\* for _, p := range periods { if len(GetHistoricalBars(instrument, p)) <
\*     historicalBarsToFetch { needs = true; break } }
Needs_EveryPeriod(instrument) ==
    \A p \in LedgerPeriods : Len(historicalBars[<<instrument, p>>]) < historicalBarsToFetch

Needs(instrument) ==
    \E p \in LedgerPeriods : Len(historicalBars[<<instrument, p>>]) < historicalBarsToFetch

\* if time.Since(last) < cooldown { continue }
InCooldown_Never(lastRequest, at) == FALSE

InCooldown(lastRequest, at) == at - lastRequest < cooldown

NewLedgerCall(op, calls, failed) ==
    [op |-> op, calls |-> calls, failed |-> failed]

\* publisher.RequestHistoricalBars, called calls[i] times for instrument i at
\* time at; the calls for the instruments in failed return an error.
RequestHistoricalBars(calls, failed, at) ==
    issued' = [i \in LedgerInstruments |->
                  IF calls[i] > 0 /\ i \notin failed THEN at ELSE issued[i]]

\* Start: initializeHistoricalData requests every instrument once and goes on
\* when a publish fails; then the health checker is started.
initializeHistoricalData(failed) ==
    /\ ledgerCall.op = "NewCentralLedger"
    /\ RequestHistoricalBars([i \in LedgerInstruments |-> 1], failed, ledgerNow)
    /\ ledgerCall' = NewLedgerCall("initializeHistoricalData",
                                   [i \in LedgerInstruments |-> 1], failed)
    /\ UNCHANGED <<ledgerNow, lastHistRequest, requested>>

\* processCommand, run by the command processor Start launched.
processCommand(cmd, fails) ==
    /\ ledgerCall.op # "NewCentralLedger"
    /\ LET calls == [i \in LedgerInstruments |->
                        IF cmd.Type = "REQUEST_HISTORICAL_DATA" /\ cmd.Data = i THEN 1 ELSE 0]
           failed == IF fails /\ cmd.Type = "REQUEST_HISTORICAL_DATA" THEN {cmd.Data} ELSE {}
       IN /\ RequestHistoricalBars(calls, failed, ledgerNow)
          /\ ledgerCall' = NewLedgerCall("processCommand", calls, failed)
    /\ UNCHANGED <<ledgerNow, lastHistRequest, requested>>

\* One receive from ticker.C in startLedgerHealthChecker: the loop over
\* instrumentList.
healthCheck(failures) ==
    /\ ledgerCall.op # "NewCentralLedger"
    /\ ledgerNow + healthCheckInterval <= MaxLedgerNow
    /\ LET at == ledgerNow + healthCheckInterval
           calls == [i \in LedgerInstruments |->
                        IF Needs(i) /\ ~InCooldown(lastHistRequest[i], at) THEN 1 ELSE 0]
           failed == {i \in failures : calls[i] > 0}
       IN /\ ledgerNow' = at
          /\ lastHistRequest' = [i \in LedgerInstruments |->
                                    IF calls[i] > 0 THEN at ELSE lastHistRequest[i]]
          /\ RequestHistoricalBars(calls, failed, at)
          /\ ledgerCall' = NewLedgerCall("healthCheck", calls, failed)
          /\ requested' = [i \in LedgerInstruments |->
                              IF calls[i] > 0 THEN at ELSE requested[i]]

\* The responder's answer to a request arrives oldest bar first for each key.
LedgerBar(key) ==
    [Instrument |-> key[1], Period |-> key[2], ProducedAt |-> 0,
     BarEndTimestamp |-> Len(historicalBars[key]) + 1, Sequence |-> 0, BidAtr |-> 0,
     AskAtr |-> 0]

InitLedger ==
    /\ historicalBars = [k \in LedgerKeys |-> <<>>]
    /\ last = [op |-> "NewStateManager", bar |-> NoBar, prev |-> <<>>]
    /\ ticks = [i \in TickInstruments |-> <<>>]
    /\ applied = [i \in TickInstruments |-> <<>>]
    /\ accountInfo = [ProducedAt |-> 0, Timestamp |-> 0, Positions |-> 0]
    /\ InitPipe
    /\ traffic = {"historical"}
    /\ NewEngine
    /\ InitApi
    /\ NewCentralLedger
    /\ InitLock
    /\ InitOther
    /\ feedPending = {}
    /\ feedOrder = <<>>
    /\ accepted = <<>>

LedgerFrame == UNCHANGED <<feedVars, pipeVars, engineVars, apiVars, lockVars, otherVars>>

NextLedger ==
    \/ \E failed \in SUBSET LedgerInstruments :
          initializeHistoricalData(failed) /\ UNCHANGED storeVars /\ LedgerFrame
    \/ \E cmd \in LedgerCommands, fails \in BOOLEAN :
          processCommand(cmd, fails) /\ UNCHANGED storeVars /\ LedgerFrame
    \/ \E failures \in SUBSET LedgerInstruments :
          healthCheck(failures) /\ UNCHANGED storeVars /\ LedgerFrame
    \/ \E key \in LedgerKeys :
          /\ Len(historicalBars[key]) < barRingBufferSize
          /\ UpdateHistoricalBar(LedgerBar(key))
          /\ UNCHANGED <<ticks, accountInfo, applied, ledgerVars>> /\ LedgerFrame

SpecLedger == InitLedger /\ [][NextLedger]_vars

\* ------------------------------------------------------------------------
\* The store calls step by step, under StateManager.mu.  A caller's work is
\* its local slice (periodBars / historicalBars / dedup / unique); the series
\* in historicalBars is what the map holds, which a write through a slice
\* that shares its backing array changes at once.

\* sm.mu.Lock() returns when no writer and no reader holds the mutex.
CanLock(c) == mu.writer = NoHolder /\ mu.readers = {}

\* sm.mu.RLock() returns when no writer holds the mutex.
CanRLock_Always(c) == TRUE

CanRLock(c) == mu.writer = NoHolder

At(c, at) == task[c].at = at

Goto(c, at, work) == task' = [task EXCEPT ![c].at = at, ![c].work = work]

\* UpdateHistoricalBar / UpdateLiveBar up to the return of sm.mu.Lock(); a
\* live-bar worker's bar is converted at the head of
\* updateHistoricalSequenceOnLiveBar.
Lock(c, bar) ==
    /\ At(c, "idle")
    /\ CanLock(c)
    /\ mu' = [mu EXCEPT !.writer = c]
    /\ task' = [task EXCEPT ![c] = [at |-> "locked", bar |-> bar, work |-> <<>>,
                                    shared |-> FALSE]]
    /\ UNCHANGED <<historicalBars, committed>>

\* UpdateHistoricalBar rules 1 and 2: the write through periodBars[i] and the return.
HistoricalReplace(c) ==
    /\ c[1] = "historical" /\ At(c, "locked")
    /\ LET bar == task[c].bar
           s == historicalBars[KeyOf(bar)]
           i == IF FindByTimestamp(s, bar.BarEndTimestamp) # 0
                THEN FindByTimestamp(s, bar.BarEndTimestamp)
                ELSE FindBySequence(s, bar.Sequence)
       IN /\ i # 0
          /\ historicalBars' = [historicalBars EXCEPT ![KeyOf(bar)] = ReplaceAt(s, i, bar)]
          /\ Goto(c, "return", <<>>)
    /\ UNCHANGED <<mu, committed>>

\* periodBars = append(periodBars, bar): the new slice shares the series'
\* backing array when its capacity allows (shared), else it is a copy.
HistoricalAppend(c, shared) ==
    /\ c[1] = "historical" /\ At(c, "locked")
    /\ LET bar == task[c].bar
           s == historicalBars[KeyOf(bar)]
       IN /\ FindByTimestamp(s, bar.BarEndTimestamp) = 0
          /\ FindBySequence(s, bar.Sequence) = 0
          /\ task' = [task EXCEPT ![c].at = "sort", ![c].work = Append(s, bar),
                                  ![c].shared = shared]
    /\ UNCHANGED <<historicalBars, mu, committed>>

\* The exchange loops over periodBars; with a shared backing array the
\* series in the map shows the exchanged elements within its length.
Sort(c) ==
    /\ At(c, "sort")
    /\ LET sorted == SortNewestFirst(task[c].work)
       IN /\ Goto(c, "dedup", sorted)
          /\ historicalBars' =
                IF task[c].shared
                THEN [historicalBars EXCEPT ![KeyOf(task[c].bar)] = SubSeq(sorted, 1, Len(@))]
                ELSE historicalBars
    /\ UNCHANGED <<mu, committed>>

\* The seen-map loop into a fresh slice.
Dedup(c) ==
    /\ At(c, "dedup")
    /\ Goto(c, "trim", DedupFirstWins(task[c].work))
    /\ UNCHANGED <<historicalBars, mu, committed>>

Trim(c) ==
    /\ At(c, "trim")
    /\ Goto(c, "store", TrimToRing(task[c].work))
    /\ UNCHANGED <<historicalBars, mu, committed>>

\* sm.historicalBars[instrument][period] = periodBars
Store(c) ==
    /\ At(c, "store")
    /\ historicalBars' = [historicalBars EXCEPT ![KeyOf(task[c].bar)] = task[c].work]
    /\ Goto(c, "return", <<>>)
    /\ UNCHANGED <<mu, committed>>

\* The deferred sm.mu.Unlock(): the call is complete.
Unlock(c) ==
    /\ At(c, "return")
    /\ mu' = [mu EXCEPT !.writer = NoHolder]
    /\ committed' = [committed EXCEPT ![KeyOf(task[c].bar)] = historicalBars[KeyOf(task[c].bar)]]
    /\ task' = [task EXCEPT ![c] = Idle]
    /\ UNCHANGED historicalBars

\* updateHistoricalSequenceOnLiveBar rule 1: the write through historicalBars[i] ...
LiveReplace(c) ==
    /\ c[1] = "bar" /\ At(c, "locked")
    /\ LET hb == task[c].bar
           s == historicalBars[KeyOf(hb)]
           i == FindByTimestamp(s, hb.BarEndTimestamp)
       IN /\ i # 0
          /\ historicalBars' = [historicalBars EXCEPT ![KeyOf(hb)] = ReplaceAt(s, i, hb)]
          /\ Goto(c, "resort", <<>>)
    /\ UNCHANGED <<mu, committed>>

\* ... and the exchange loops over the same slice.
LiveResort(c) ==
    /\ At(c, "resort")
    /\ LET sorted == SortNewestFirst(historicalBars[KeyOf(task[c].bar)])
       IN /\ historicalBars' = [historicalBars EXCEPT ![KeyOf(task[c].bar)] = sorted]
          /\ Goto(c, "trim", sorted)
    /\ UNCHANGED <<mu, committed>>

\* updateHistoricalSequenceOnLiveBar rule 2: append([]HistoricalBar{hb}, historicalBars...)
LivePrepend(c) ==
    /\ c[1] = "bar" /\ At(c, "locked")
    /\ LET hb == task[c].bar
           s == historicalBars[KeyOf(hb)]
       IN /\ FindByTimestamp(s, hb.BarEndTimestamp) = 0
          /\ Goto(c, "dedup", <<hb>> \o s)
    /\ UNCHANGED <<historicalBars, mu, committed>>

\* GetHistoricalBars up to the return of sm.mu.RLock().
RLock(c, key) ==
    /\ At(c, "idle")
    /\ CanRLock(c)
    /\ mu' = [mu EXCEPT !.readers = @ \cup {c}]
    /\ task' = [task EXCEPT ![c] = [at |-> "rlocked", key |-> key, copy |-> <<>>]]
    /\ UNCHANGED <<historicalBars, committed>>

\* barsCopy := make(...); copy(barsCopy, sm.historicalBars[instrument][period])
Copy(c) ==
    /\ At(c, "rlocked")
    /\ task' = [task EXCEPT ![c].at = "copied", ![c].copy = historicalBars[task[c].key]]
    /\ UNCHANGED <<historicalBars, mu, committed>>

\* The deferred sm.mu.RUnlock(); the caller takes barsCopy.
RUnlock(c) ==
    /\ At(c, "copied")
    /\ mu' = [mu EXCEPT !.readers = @ \ {c}]
    /\ task' = [task EXCEPT ![c] = Idle]
    /\ UNCHANGED <<historicalBars, committed>>

InitLockSpec ==
    /\ InitStore
    /\ InitPipe
    /\ traffic = {"bar"}
    /\ NewEngine
    /\ InitApi
    /\ NewCentralLedger
    /\ InitLock
    /\ InitOther
    /\ feedPending = {}
    /\ feedOrder = <<>>
    /\ accepted = <<>>

LockFrame ==
    UNCHANGED <<last, ticks, accountInfo, applied, feedVars, pipeVars, engineVars,
                apiVars, ledgerVars, otherVars>>

NextLock ==
    \/ \E c \in LockWriters, bar \in LockHistoricalBars :
          c[1] = "historical" /\ Lock(c, bar) /\ LockFrame
    \/ \E c \in LockWriters, bar \in LiveBars :
          c[1] = "bar" /\ Lock(c, ToHistoricalBar(bar)) /\ LockFrame
    \/ \E c \in LockWriters : HistoricalReplace(c) /\ LockFrame
    \/ \E c \in LockWriters, shared \in BOOLEAN : HistoricalAppend(c, shared) /\ LockFrame
    \/ \E c \in LockWriters : Sort(c) /\ LockFrame
    \/ \E c \in LockWriters : Dedup(c) /\ LockFrame
    \/ \E c \in LockWriters : Trim(c) /\ LockFrame
    \/ \E c \in LockWriters : Store(c) /\ LockFrame
    \/ \E c \in LockWriters : Unlock(c) /\ LockFrame
    \/ \E c \in LockWriters : LiveReplace(c) /\ LockFrame
    \/ \E c \in LockWriters : LiveResort(c) /\ LockFrame
    \/ \E c \in LockWriters : LivePrepend(c) /\ LockFrame
    \/ \E c \in LockReaders, key \in Keys : RLock(c, key) /\ LockFrame
    \/ \E c \in LockReaders : Copy(c) /\ LockFrame
    \/ \E c \in LockReaders : RUnlock(c) /\ LockFrame

SpecLock == InitLockSpec /\ [][NextLock]_vars

\* ------------------------------------------------------------------------
\* SetParams of the parametrizable strategies.

\* int(v) rounding to the nearest integer
ToInt_Round(v) == IF v >= 0 THEN (v + 5) \div 10 ELSE 0 - ((5 - v) \div 10)

\* int(v) of a float64: truncation toward zero
ToInt(v) == IF v >= 0 THEN v \div 10 ELSE 0 - ((0 - v) \div 10)

\* v, ok := p[key]
Has(p, key) == key \in DOMAIN p.m

\* DonchianBreakoutStrategy.SetParams
DonchianSetParams(s, p) ==
    IF p.nil THEN s
    ELSE [len |-> IF Has(p, "len") /\ ToInt(p.m["len"]) > 1 THEN ToInt(p.m["len"]) ELSE s.len,
          buf |-> IF Has(p, "buf") /\ p.m["buf"] >= 0 THEN p.m["buf"] ELSE s.buf,
          atrLen |-> IF Has(p, "atrLen") /\ ToInt(p.m["atrLen"]) > 1
                     THEN ToInt(p.m["atrLen"]) ELSE s.atrLen]

\* SupertrendStrategy.SetParams
SupertrendSetParams(s, p) ==
    IF p.nil THEN s
    ELSE [atrLen |-> IF Has(p, "atrLen") /\ ToInt(p.m["atrLen"]) > 1
                     THEN ToInt(p.m["atrLen"]) ELSE s.atrLen,
          mult |-> IF Has(p, "mult") /\ p.m["mult"] > 0 THEN p.m["mult"] ELSE s.mult]

SetParams(name, p) ==
    /\ setCall' = [strategy |-> name, params |-> p]
    /\ strategies' =
         [strategies EXCEPT ![name] =
            IF name = "BREAKOUT_DC" THEN DonchianSetParams(@, p)
            ELSE SupertrendSetParams(@, p)]

InitParams ==
    /\ InitStore
    /\ InitPipe
    /\ traffic = {"tick"}
    /\ NewEngine
    /\ InitApi
    /\ NewCentralLedger
    /\ InitLock
    /\ InitOther
    /\ feedPending = {}
    /\ feedOrder = <<>>
    /\ accepted = <<>>

ParamsFrame ==
    UNCHANGED <<storeVars, feedVars, pipeVars, engineVars, apiVars, ledgerVars, lockVars,
                raceVars, hubVars>>

NextParams ==
    \/ \E p \in ParamMaps \cup {NilParams} : SetParams("BREAKOUT_DC", p) /\ ParamsFrame
    \/ \E p \in ParamMaps \cup {NilParams} : SetParams("SUPERTREND_TREND", p) /\ ParamsFrame

SpecParams == InitParams /\ [][NextParams]_vars

\* ------------------------------------------------------------------------
\* Properties of the canonical historical series.

Timestamps(s) == {s[i].BarEndTimestamp : i \in 1..Len(s)}

Entries(s) == {s[i] : i \in 1..Len(s)}

NewestFirst(s) ==
    \A i, j \in 1..Len(s) : i < j => s[i].BarEndTimestamp >= s[j].BarEndTimestamp

UniqueTimestamps(s) ==
    \A i, j \in 1..Len(s) : i # j => s[i].BarEndTimestamp # s[j].BarEndTimestamp

IsUpdate == last.op \in {"UpdateHistoricalBar", "UpdateLiveBar"}

Current == historicalBars[KeyOf(last.bar)]

MinTimestamp(s) ==
    CHOOSE t \in Timestamps(s) : \A u \in Timestamps(s) : t <= u

\* C1: after any sequence of UpdateHistoricalBar / UpdateLiveBar calls every
\* canonical series is sorted by non-increasing bar-end timestamp.
C1_SortedNewestFirst == \A k \in Keys : NewestFirst(historicalBars[k])

\* C2: after any sequence of UpdateHistoricalBar / UpdateLiveBar calls no
\* canonical series holds two entries with the same bar-end timestamp.
C2_UniqueTimestamps == \A k \in Keys : UniqueTimestamps(historicalBars[k])

\* C2's case: a bar was applied whose timestamp the series already held,
\* next to other entries.
C2_Witness ==
    /\ IsUpdate
    /\ last.bar.BarEndTimestamp \in Timestamps(last.prev)
    /\ Len(last.prev) >= 2
    /\ Len(Current) >= 2

\* C3: in every reachable state every canonical series has at most
\* barRingBufferSize entries.
C3_AtMostRingSize == \A k \in Keys : Len(historicalBars[k]) <= barRingBufferSize

\* C3's case: a bar with a new timestamp was applied to a full series.
C3_Witness ==
    /\ IsUpdate
    /\ Len(last.prev) = barRingBufferSize
    /\ last.bar.BarEndTimestamp \notin Timestamps(last.prev)
    /\ last.bar \in Entries(Current)
    /\ Len(Current) = barRingBufferSize

\* C4: when a series holds exactly barRingBufferSize entries and a bar is
\* applied whose timestamp is not in the series and is greater than the
\* smallest timestamp in it, the resulting series is the old one minus
\* exactly the entry with the smallest timestamp, plus the new bar.
C4_EvictsExactlyOldest ==
    ( /\ IsUpdate
      /\ Len(last.prev) = barRingBufferSize
      /\ last.bar.BarEndTimestamp \notin Timestamps(last.prev)
      /\ last.bar.BarEndTimestamp > MinTimestamp(last.prev) )
    => Entries(Current) =
         ({e \in Entries(last.prev) : e.BarEndTimestamp # MinTimestamp(last.prev)}
            \cup {last.bar})

\* C5: UpdateHistoricalBar with a bar whose timestamp the series already
\* holds replaces the content of that one slot only: the length, the
\* timestamp at every index and every other entry are unchanged.
C5_ReplaceInPlace ==
    ( /\ last.op = "UpdateHistoricalBar"
      /\ last.bar.BarEndTimestamp \in Timestamps(last.prev) )
    => /\ Len(Current) = Len(last.prev)
       /\ \A i \in 1..Len(last.prev) :
            /\ Current[i].BarEndTimestamp = last.prev[i].BarEndTimestamp
            /\ IF last.prev[i].BarEndTimestamp = last.bar.BarEndTimestamp
               THEN Current[i] = last.bar
               ELSE Current[i] = last.prev[i]

\* C5's case: a re-delivered historical bar with different content replaced
\* an entry of a series that holds other entries too.
C5_Witness ==
    /\ last.op = "UpdateHistoricalBar"
    /\ last.bar.BarEndTimestamp \in Timestamps(last.prev)
    /\ last.bar \notin Entries(last.prev)
    /\ last.bar \in Entries(Current)
    /\ Len(last.prev) >= 2

\* ------------------------------------------------------------------------
\* The bulk-feed scenario.

FeedDone == feedPending = {} /\ Len(feedOrder) = NumFeed

FeedSeries == historicalBars[<<"EURUSD", "ONE_MIN">>]

\* the series holds exactly the barRingBufferSize newest bars of the feed,
\* newest first
FeedKeptNewest ==
    /\ Len(FeedSeries) = barRingBufferSize
    /\ \A i \in 1..barRingBufferSize :
         /\ FeedSeries[i].BarEndTimestamp = NumFeed - (i - 1)
         /\ FeedSeries[i] \in Entries(feedOrder)

NoSharedSequence ==
    \A i, j \in 1..Len(feedOrder) :
        (i # j /\ feedOrder[i].Sequence # 0) => feedOrder[i].Sequence # feedOrder[j].Sequence

LastN(s, n) == IF Len(s) > n THEN SubSeq(s, Len(s) - n + 1, Len(s)) ELSE s

OfInstrument(s, ins) == SelectSeq(s, LAMBDA m : m.Instrument = ins)

Outcomes == {log[id].outcome : id \in 1..Len(log)}

\* C7: for every instrument the tick ring never holds more than
\* tickRingBufferSize entries and equals the last min(tickRingBufferSize, k)
\* ticks UpdateTick applied for that instrument, in the order applied.
C7_TickRing ==
    \A ins \in TickInstruments :
        /\ Len(ticks[ins]) <= tickRingBufferSize
        /\ ticks[ins] = LastN(applied[ins], tickRingBufferSize)

\* C7's case: more ticks were applied for one instrument than its ring
\* holds, in a run in which another tick was discarded as stale.
C7_Witness ==
    /\ Len(applied["EURUSD"]) > tickRingBufferSize
    /\ Len(ticks["EURUSD"]) = tickRingBufferSize
    /\ "stale" \in Outcomes

\* a step in which one of the Enqueue functions was called for class c
EnqueueStep(c) == Len(log') = Len(log) + 1 /\ log'[Len(log')].class = c

Full(c) == Len(channel[c]) >= ChannelSize(c)

\* the delivery of this step was negatively acknowledged (once, never
\* acknowledged) and the channel is as it was
Rejected(c) ==
    /\ log'[Len(log')].nacks = 1
    /\ log'[Len(log')].acks = 0
    /\ channel' = channel

\* C8 as stated: every Enqueue call returns without blocking, and when the
\* target channel is full the delivery is negatively acknowledged, is not
\* placed in the channel, and the channel is unchanged.
C8_FullChannelRejects ==
    [][\A c \in Classes : (EnqueueStep(c) /\ Full(c)) => Rejected(c)]_vars

\* some branch of the select of Enqueue can be taken in every state
EnqueueReturns ==
    \A c \in traffic :
        Len(log) < MaxDeliveries => ENABLED (Enqueue(c, Malformed) /\ UNCHANGED feedVars)

\* C8 amended: every Enqueue call returns without blocking, and while the
\* handler has not been stopped a delivery for a full channel is negatively
\* acknowledged, is not placed in the channel, and the channel is unchanged.
C8_FullChannelRejectsUnlessStopped ==
    /\ []EnqueueReturns
    /\ [][\A c \in Classes : (EnqueueStep(c) /\ Full(c) /\ ~stopped) => Rejected(c)]_vars

\* C8's case: a tick was handed to EnqueueTick while the tick channel was
\* full and the handler running.
C8_Witness ==
    /\ \E id \in 1..Len(log) : log[id].class = "tick" /\ log[id].outcome = "rejected"
    /\ Len(channel["tick"]) = tickChannelSize
    /\ ~stopped

\* C9: when MaxDeliveries fresh ticks are enqueued while the tick worker
\* takes none, exactly the last enqueue is rejected, and once the worker has
\* drained the channel every instrument's ring holds the last
\* tickRingBufferSize accepted ticks of that instrument in acceptance order.
\* Fresh: none of the ticks is stale when the worker processes it.
OverflowDrained ==
    /\ Len(log) = MaxDeliveries
    /\ channel["tick"] = <<>>
    /\ hold[TickWorker] = NoDelivery

C9_Overflow ==
    /\ Len(log) = MaxDeliveries =>
          \A id \in 1..MaxDeliveries :
              /\ (id = MaxDeliveries) <=> (log[id].outcome = "rejected")
              /\ log[id].nacks = (IF id = MaxDeliveries THEN 1 ELSE 0)
    /\ (OverflowDrained /\ "stale" \notin Outcomes) =>
          /\ Len(accepted) = tickChannelSize
          /\ \A ins \in TickInstruments :
                ticks[ins] = LastN(OfInstrument(accepted, ins), tickRingBufferSize)

\* C9's case: the scenario has run to its end with every accepted tick
\* fresh, and the ring of one instrument was trimmed on the way.
C9_Witness ==
    /\ OverflowDrained
    /\ "stale" \notin Outcomes
    /\ log[MaxDeliveries].outcome = "rejected"
    /\ Len(OfInstrument(accepted, "EURUSD")) > tickRingBufferSize
    /\ Len(ticks["EURUSD"]) = tickRingBufferSize

\* a step in which worker w finished the process function on its delivery
ProcessStep(w) == hold[w] # NoDelivery /\ hold'[w] = NoDelivery

\* the delivery is parseable and older than the staleness threshold now
StaleNow(d) == d.body.ok /\ now - d.body.msg.ProducedAt > staleMessageThreshold

Acked(d) ==
    /\ log'[d.id].acks = log[d.id].acks + 1
    /\ log'[d.id].nacks = log[d.id].nacks

StoreUnchanged == UNCHANGED <<ticks, historicalBars, accountInfo>>

\* C10 as stated: for every message class, a parseable message older than the
\* staleness threshold is acknowledged and leaves the store unchanged.
C10_StaleDiscarded ==
    [][\A w \in Workers :
          (ProcessStep(w) /\ StaleNow(hold[w])) => (Acked(hold[w]) /\ StoreUnchanged)]_vars

\* C10 amended: a parseable tick, live bar or account snapshot older than the
\* staleness threshold is acknowledged and leaves the store unchanged; a
\* parseable historical bar is applied and acknowledged whatever its age.
C10_StaleDiscardedExceptHistorical ==
    [][\A w \in Workers :
          /\ (ProcessStep(w) /\ StaleNow(hold[w]) /\ w[1] # "historical")
                => (Acked(hold[w]) /\ StoreUnchanged)
          /\ (ProcessStep(w) /\ hold[w].body.ok /\ w[1] = "historical")
                => /\ Acked(hold[w])
                   /\ hold[w].body.msg \in Entries(historicalBars'[KeyOf(hold[w].body.msg)])
      ]_vars

\* C10's case: a live bar was discarded as stale and acknowledged.
C10_Witness ==
    \E id \in 1..Len(log) :
        /\ log[id].class = "bar"
        /\ log[id].outcome = "stale"
        /\ log[id].acks = 1
        /\ log[id].nacks = 0

\* the delivery in w's hands was negatively acknowledged once, without requeue
NackedNoRequeue(d) ==
    /\ log'[d.id].nacks = log[d.id].nacks + 1
    /\ log'[d.id].acks = log[d.id].acks
    /\ log'[d.id].requeue = FALSE

\* worker w is back at the select of its loop
AtSelect(w) == w \notin exited /\ hold[w] = NoDelivery

\* C11: a delivery whose payload fails to parse is negatively acknowledged
\* without requeue and leaves the store unchanged, and the worker is back at
\* its select, where it can receive the next queued delivery.
C11_MalformedRejected ==
    /\ [][\A w \in Workers :
             (ProcessStep(w) /\ ~hold[w].body.ok)
                => /\ NackedNoRequeue(hold[w])
                   /\ StoreUnchanged
                   /\ AtSelect(w)']_vars
    /\ [](\A w \in Workers :
             (AtSelect(w) /\ channel[w[1]] # <<>>) => ENABLED WorkerReceive(w))

\* C11's case: the tick worker rejected a malformed tick and then applied a
\* tick that was queued behind it.
C11_Witness ==
    \E i, j \in 1..Len(log) :
        /\ i < j
        /\ log[i].class = "tick" /\ log[i].outcome = "malformed"
        /\ log[i].nacks = 1 /\ log[i].acks = 0
        /\ log[j].class = "tick" /\ log[j].outcome = "applied"

\* ------------------------------------------------------------------------
\* Properties of the strategy engine.

\* a step in which StartStrategyWithParams / StopStrategy was called for key
StartCall(key) == call' # call /\ call'.op = "Start" /\ call'.key = key

StopCall(key) == call' # call /\ call'.op = "Stop" /\ call'.key = key

RunIDs == 1..Len(cfgs)

\* C12: StartStrategyWithParams on a key that already has a run changes
\* nothing: the registry, every runConfig (run identifier, strategy, qty,
\* atrMult) and the number of polling tasks are as before, and SetParams is
\* not called.
C12_StartOnRunningKeyIsNoOp ==
    [][\A key \in Keys :
          (StartCall(key) /\ runs[key] # 0)
             => /\ UNCHANGED <<runs, cfgs, engineLog>>
                /\ Len(cfgs') = Len(cfgs)]_vars

\* C12's case: the last call was a start, with parameters for a strategy that
\* takes them, on a key whose registered run has another strategy, qty and
\* atrMult.
C12_Witness ==
    /\ call.op = "Start"
    /\ runs[call.key] # 0
    /\ Parametrizable(call.req.strategy) /\ call.req.params # NoParams
    /\ cfgs[runs[call.key]].strategy # call.req.strategy
    /\ cfgs[runs[call.key]].qty # GuardQty(call.req.qty)
    /\ cfgs[runs[call.key]].atrMult # GuardAtrMult(call.req.atrMult)
    /\ engineLog.setParams = 0

\* C13: StopStrategy on a key with no run returns, and leaves the registry
\* and every runConfig as they were: no stop channel is closed or about to
\* be, and no stop event is emitted.
C13_StopWithoutRunIsNoOp ==
    /\ [][\A key \in Keys :
             (StopCall(key) /\ runs[key] = 0) => UNCHANGED <<runs, cfgs, engineLog, published>>]_vars
    /\ [](\A key \in Keys : ENABLED (StopStrategyLocked(key) /\ EngineFrame))

\* C13's case: the last call was a stop on a key whose run had been stopped,
\* its stop channel closed and its polling task gone before.
C13_Witness ==
    /\ call.op = "Stop"
    /\ call.serial = 1
    /\ Len(cfgs) = 1
    /\ cfgs[1].closes = 1 /\ cfgs[1].closers = 0 /\ cfgs[1].pc = "exited"
    /\ runs[call.key] = 0
    /\ engineLog.stopEvents = 1

\* the run has not been taken out of the registry by a StopStrategy call
InRegistry(id) == cfgs[id].closers = 0 /\ cfgs[id].closes = 0

\* C14: under any interleaving of StartStrategyWithParams and StopStrategy
\* calls there is at most one run per key that no stop has removed, it is the
\* one the registry maps the key to, and no stop channel is closed twice.
C14_OneRunPerKey ==
    /\ \A key \in Keys :
          /\ Cardinality({id \in RunIDs : cfgs[id].key = key /\ InRegistry(id)}) <= 1
          /\ \A id \in RunIDs : (cfgs[id].key = key /\ InRegistry(id)) => runs[key] = id
    /\ \A id \in RunIDs : cfgs[id].closes + cfgs[id].closers <= 1

\* C14's case: a second run was started on a key while the StopStrategy call
\* that removed the first had not yet closed its stop channel.
C14_Witness ==
    /\ Len(cfgs) = 2
    /\ cfgs[1].key = cfgs[2].key
    /\ cfgs[1].closers = 1 /\ cfgs[1].closes = 0
    /\ runs[cfgs[2].key] = 2

Stopped(id) == id \in RunIDs /\ ~InRegistry(id)

Exited(id) == id \in RunIDs /\ cfgs[id].pc = "exited"

\* C17: once StopStrategy has released the registry lock on a running key
\* the run is no longer in the registry that Statuses lists, and its polling
\* task eventually exits.
C17_StoppedRunExits ==
    /\ [](\A id \in 1..MaxRuns : Stopped(id) => \A key \in Keys : runs[key] # id)
    /\ \A id \in 1..MaxRuns : Stopped(id) ~> Exited(id)

\* C17's case: a stopped run's polling task has exited after polling once
\* more with its stop channel closed, while a later run is listed.
C17_Witness ==
    /\ Exited(1)
    /\ cfgs[1].polls = 1
    /\ Len(cfgs) = 2
    /\ Cardinality(Statuses) = 1

\* ------------------------------------------------------------------------
\* Properties of the polling task.

\* C15: while a run is active its polling task invokes the decision function
\* at most once for each bar-end timestamp, however often that bar is
\* delivered again, replaced with other content or renumbered.
C15_AtMostOncePerBar ==
    \A id \in RunIDs : \A ts \in 1..MaxTs : cfgs[id].evaluated[ts] <= 1

Series(id) == historicalBars[cfgs[id].key]

\* the bar with the latest end time in a series
Newest(s) == s[CHOOSE i \in 1..Len(s) : \A j \in 1..Len(s) : s[i].BarEndTimestamp >= s[j].BarEndTimestamp]

\* the newest bar of the run's series ends at ts and heads the series
NewestAtHead(id, ts) ==
    /\ id \in RunIDs
    /\ Series(id) # <<>>
    /\ Series(id)[1].BarEndTimestamp = ts
    /\ Newest(Series(id)).BarEndTimestamp = ts

\* the task has evaluated the bar ending at ts, or a newer bar has arrived
EvaluatedOrSuperseded(id, ts) ==
    /\ id \in RunIDs
    /\ \/ cfgs[id].evaluated[ts] > 0
       \/ Series(id) # <<>> /\ Newest(Series(id)).BarEndTimestamp > ts

\* C16: while a run is active, whenever a bar with a later end time becomes
\* the newest bar of its series the polling task eventually invokes the
\* decision function on the series headed by that bar, unless a still newer
\* bar arrives first.
C16_NewBarEvaluated ==
    \A id \in 1..MaxRuns : \A ts \in PollTimestamps :
        NewestAtHead(id, ts) ~> EvaluatedOrSuperseded(id, ts)

\* a step in which task id polled and an order was published
PublishStep(id) ==
    /\ id \in RunIDs
    /\ cfgs'[id].polls # cfgs[id].polls
    /\ published' # published

Mid(bar) == (BidClose(bar) + AskClose(bar)) \div 2

\* C18: with atrMult 2.0, a Buy signal on EURUSD (pip 0.0001) and a newest
\* bar whose ATR is 0.0010, the published order has its stop-loss 20 pips
\* below and its take-profit 20 pips above the mid close of the newest bar.
C18_TwentyPips ==
    [][\A id \in 1..MaxRuns :
          ( /\ PublishStep(id)
            /\ published'.OrderCmd = SignalBuy
            /\ cfgs[id].atrMult = 2
            /\ cfgs[id].key[1] = "EURUSD"
            /\ Newest(Series(id)).BidAtr = 1000 )
          => /\ published'.StopLossPrice = Mid(Newest(Series(id))) - 20 * 100
             /\ published'.TakeProfitPrice = Mid(Newest(Series(id))) + 20 * 100]_vars

\* ------------------------------------------------------------------------
\* Properties of the store's read and write API.

\* a step in which UpdateLiveBar was called
LiveBarStep == last' # last /\ last'.op = "UpdateLiveBar"

InRing(s, hb) == \E i \in 1..Len(s) : s[i].BarEndTimestamp = hb.BarEndTimestamp

\* C19 as stated: UpdateLiveBar both appends the bar to the live-bar ring of
\* its key, where GetBars finds it, and merges it into the canonical series.
C19_RingAndSeries ==
    [][LiveBarStep =>
          /\ InRing(bars'[KeyOf(last'.bar)], last'.bar)
          /\ last'.bar \in Entries(historicalBars'[KeyOf(last'.bar)])]_vars

\* C19 amended: UpdateLiveBar merges the bar into the canonical series of its
\* key and leaves the live-bar ring, which only UpdateBar appends to, as it
\* was.
C19_SeriesOnly ==
    [][LiveBarStep =>
          /\ bars' = bars
          /\ last'.bar \in Entries(historicalBars'[KeyOf(last'.bar)])]_vars

\* C19's case: a live bar was merged into a series that held another bar,
\* and the ring, which UpdateBar had filled before, does not hold a bar of
\* that end time.
C19_Witness ==
    /\ last.op = "UpdateLiveBar"
    /\ last.prev # <<>>
    /\ last.bar \in Entries(Current)
    /\ Len(bars[KeyOf(last.bar)]) = barRingBufferSize
    /\ ~InRing(bars[KeyOf(last.bar)], last.bar)

\* a value with every slice in it replaced by the slice's elements
Deref(info) ==
    [info EXCEPT !.Positions = IF @ = 0 THEN <<>> ELSE heap[@]]

\* what the four Get methods would return now, and what the caller holds
StoreView ==
    [ticks |-> ticks, bars |-> bars, historical |-> historicalBars,
     account |-> Deref(accountInfo)]

GotView == IF got.kind = "account" THEN Deref(got.value) ELSE got.value

\* C20: a returned value shares no mutable container with the store: a step
\* that assigns to no field of the store changes nothing a later Get returns,
\* and a step in which the caller does not touch its value leaves that value
\* as it was.
C20_NoAliasing ==
    [][/\ (UNCHANGED <<ticks, bars, historicalBars, accountInfo>>) => (StoreView' = StoreView)
       /\ (UNCHANGED got) => (GotView' = GotView)]_vars

\* ------------------------------------------------------------------------
\* Properties of the reconciliation loop.

\* Only the health checker's cycle advances the clock.
HealthStep == ledgerCall'.op = "healthCheck" /\ ledgerNow' # ledgerNow

Short(i) ==
    \E p \in LedgerPeriods : Len(historicalBars[<<i, p>>]) < historicalBarsToFetch

Complete(i) ==
    \A p \in LedgerPeriods : Len(historicalBars[<<i, p>>]) >= historicalBarsToFetch

\* C21: on a reconciliation cycle, an instrument with at least one period short
\* of the target count and outside its cooldown gets exactly one backfill
\* request, handed to the publisher, and its request time is recorded; an
\* instrument whose periods all hold the target count gets none.
C21_CycleRequests ==
    [][HealthStep =>
         \A i \in LedgerInstruments :
            /\ (Short(i) /\ ledgerNow' - lastHistRequest[i] >= cooldown)
                  => (ledgerCall'.calls[i] = 1 /\ lastHistRequest'[i] = ledgerNow')
            /\ Complete(i) => ledgerCall'.calls[i] = 0]_vars

C21_Witness ==
    /\ ledgerCall.op = "healthCheck"
    /\ ledgerCall.calls["EURUSD"] = 1
    /\ lastHistRequest["EURUSD"] = ledgerNow
    /\ Len(historicalBars[<<"EURUSD", "ONE_MIN">>]) >= historicalBarsToFetch
    /\ Len(historicalBars[<<"EURUSD", "FIVE_MINS">>]) < historicalBarsToFetch
    /\ Complete("USDJPY")
    /\ ledgerCall.calls["USDJPY"] = 0

\* C22: the reconciliation loop publishes a backfill request for an instrument
\* only if no backfill request for it was published within the preceding
\* cooldown window, by the startup requests, a REQUEST_HISTORICAL_DATA command
\* or an earlier cycle.
C22_CooldownOverAllPaths ==
    [][HealthStep =>
         \A i \in LedgerInstruments :
            ledgerCall'.calls[i] > 0 => ledgerNow' - issued[i] >= cooldown]_vars

\* C23: when the reconciliation loop's publish for an instrument failed and the
\* instrument is still short of the target count, the very next cycle
\* publishes a backfill request for it again.
C23_NextCycleRetries ==
    [][(HealthStep /\ ledgerCall.op = "healthCheck") =>
         \A i \in ledgerCall.failed : Short(i) => ledgerCall'.calls[i] = 1]_vars

\* C33: two consecutive backfill requests of the reconciliation loop itself
\* for the same instrument are at least the cooldown apart, and within one
\* cycle the loop makes at most one request per instrument.
C33_LoopRequestsCooldownApart ==
    [][HealthStep =>
         \A i \in LedgerInstruments :
            /\ ledgerCall'.calls[i] <= 1
            /\ (ledgerCall'.calls[i] > 0 /\ requested[i] # ZeroTime)
                  => ledgerNow' - requested[i] >= cooldown]_vars

\* C33's case: the third cycle requests EURUSD, which is still short; the
\* loop requested it before, on the first cycle.
C33_Witness ==
    /\ ledgerCall.op = "healthCheck"
    /\ ledgerNow = 3 * healthCheckInterval
    /\ ledgerCall.calls["EURUSD"] = 1
    /\ requested["EURUSD"] = ledgerNow
    /\ Short("EURUSD")

\* ------------------------------------------------------------------------
\* The legacy sequence rule and the insertion path of UpdateHistoricalBar.

NewTimestamp ==
    /\ last.op = "UpdateHistoricalBar"
    /\ last.bar.BarEndTimestamp \notin Timestamps(last.prev)

SequenceMatch ==
    /\ last.bar.Sequence # 0
    /\ \E i \in 1..Len(last.prev) : last.prev[i].Sequence = last.bar.Sequence

\* The barRingBufferSize entries with the greatest timestamps.
NewestOf(entries) ==
    {e \in entries :
        Cardinality({x \in entries : x.BarEndTimestamp > e.BarEndTimestamp})
           < barRingBufferSize}

\* C24: UpdateHistoricalBar with a bar whose timestamp is not in the series
\* overwrites in place an entry with the bar's non-zero sequence number when
\* there is one (the length unchanged); otherwise the bar is inserted and the
\* series is newest-first, free of duplicate timestamps and trimmed to the
\* barRingBufferSize newest entries.
C24_SequenceOverwriteElseInsert ==
    NewTimestamp =>
       IF SequenceMatch
       THEN /\ Len(Current) = Len(last.prev)
            /\ \E i \in 1..Len(last.prev) :
                  /\ last.prev[i].Sequence = last.bar.Sequence
                  /\ Current = [last.prev EXCEPT ![i] = last.bar]
       ELSE /\ NewestFirst(Current)
            /\ UniqueTimestamps(Current)
            /\ Len(Current) <= barRingBufferSize
            /\ Entries(Current) = NewestOf(Entries(last.prev) \cup {last.bar})

\* C24's cases: an entry other than the only one was overwritten by sequence
\* number; a bar without a matching sequence number went into a full series.
C24_Witness ==
    /\ NewTimestamp
    /\ SequenceMatch
    /\ Len(last.prev) >= 2
    /\ last.bar \in Entries(Current)

C24_WitnessInsert ==
    /\ NewTimestamp
    /\ ~SequenceMatch
    /\ Len(last.prev) = barRingBufferSize
    /\ last.bar \in Entries(Current)

\* ------------------------------------------------------------------------
\* Two historical bars applied in either order.

\* The bars of the key of the last bar applied, with another timestamp.
OtherBars ==
    {b \in HistoricalBars :
        /\ KeyOf(b) = KeyOf(last.bar)
        /\ b.BarEndTimestamp # last.bar.BarEndTimestamp}

\* C25: for any two historical bars of the same (instrument, period) with
\* different bar-end timestamps, applying them with UpdateHistoricalBar in
\* either order to the same starting series yields the same series: the bar
\* applied last, followed by any other bar, gives what the other bar followed
\* by the bar applied last gives.
C25_OrderIndependent ==
    last.op = "UpdateHistoricalBar" =>
       \A b \in OtherBars :
          MergeHistorical(Current, b)
             = MergeHistorical(MergeHistorical(last.prev, b), last.bar)

\* ------------------------------------------------------------------------
\* Readers and writers of the store.

Writing(c) == task[c].at \notin {"idle", "rlocked", "copied"}

\* The completed call agrees with the call taken as one step.
StepsAgree ==
    \A c \in LockWriters :
       At(c, "return") =>
          historicalBars[KeyOf(task[c].bar)] =
             IF c[1] = "historical"
             THEN MergeHistorical(committed[KeyOf(task[c].bar)], task[c].bar)
             ELSE MergeLive(committed[KeyOf(task[c].bar)], task[c].bar)

\* C26: under any interleaving of the live-bar workers, the historical
\* workers and the readers, every GetHistoricalBars result is the series as
\* the last completed Update call left it (the empty series before the first):
\* no reader copies a series in the middle of a replace, sort, deduplicate or
\* trim step.
C26_ReadersSeeCompletedUpdates ==
    [][\A c \in LockReaders :
          (At(c, "rlocked") /\ task'[c].at = "copied")
             => task'[c].copy = committed[task[c].key]]_vars

\* C26's case: after completed Update calls two readers are inside
\* GetHistoricalBars at once, one of them holding its copy of the series.
C26_Witness ==
    \E r, q \in LockReaders :
       /\ At(r, "copied")
       /\ Len(task[r].copy) >= 2
       /\ task[r].copy = committed[task[r].key]
       /\ q # r
       /\ At(q, "rlocked")

\* ------------------------------------------------------------------------
\* The order in which the tick worker applies ticks.  Deliveries are numbered
\* in the order they are handed to EnqueueTick, and a tick's Timestamp is its
\* delivery number.

TickIds == {i \in 1..Len(log) : log[i].class = "tick"}

Ascending(s) == \A i, j \in 1..Len(s) : i < j => s[i].Timestamp < s[j].Timestamp

\* C27: the ticks EnqueueTick accepted are applied to the store in the order
\* in which they were accepted: when a tick has been applied, no tick accepted
\* before it is still waiting, and each instrument's ticks were passed to
\* UpdateTick in the order of their acceptance.
C27_TicksAppliedFIFO ==
    /\ \A i, j \in TickIds :
          (i < j /\ log[j].outcome = "applied") => log[i].outcome # "queued"
    /\ \A instrument \in TickInstruments : Ascending(applied[instrument])

\* C27's case: two ticks of different instruments, accepted one after the
\* other, are both applied while a third waits in the channel.
C27_Witness ==
    /\ Len(log) >= 3
    /\ {1, 2, 3} \subseteq TickIds
    /\ log[1].outcome = "applied"
    /\ log[2].outcome = "applied"
    /\ log[3].outcome = "queued"
    /\ applied["EURUSD"] # <<>>
    /\ applied["USDJPY"] # <<>>

\* ------------------------------------------------------------------------
\* The orders of the polling task.

\* half the span between stop-loss and take-profit
Distance(order) ==
    IF order.TakeProfitPrice >= order.StopLossPrice
    THEN (order.TakeProfitPrice - order.StopLossPrice) \div 2
    ELSE (order.StopLossPrice - order.TakeProfitPrice) \div 2

\* C28: for every order the polling task publishes, stop-loss and take-profit
\* are equidistant from the mid price of the newest bar: for Buy the stop-loss
\* is below and the take-profit above it, for Sell the stop-loss is above and
\* the take-profit below.
C28_SymmetricAroundNewestMid ==
    [][\A id \in 1..MaxRuns :
          PublishStep(id) =>
             LET mid == Mid(Newest(Series(id)))
                 order == published'
             IN IF order.OrderCmd = SignalBuy
                THEN /\ order.StopLossPrice < mid
                     /\ mid < order.TakeProfitPrice
                     /\ mid - order.StopLossPrice = order.TakeProfitPrice - mid
                ELSE /\ order.TakeProfitPrice < mid
                     /\ mid < order.StopLossPrice
                     /\ order.StopLossPrice - mid = mid - order.TakeProfitPrice]_vars

\* atrMult * (atr / pip) pips, at least one pip, as a price distance
AtrDistance(atrMult, atr, pip) == IF atrMult * atr < pip THEN pip ELSE atrMult * atr

\* C29: when the newest bar's bid ATR and ask ATR are both zero or negative,
\* the protective distance of the published order is 10 pips; when its bid
\* ATR is zero or negative and its ask ATR positive, the distance is the one
\* the ask ATR gives.
C29_AtrFallback ==
    [][\A id \in 1..MaxRuns :
          PublishStep(id) =>
             LET newest == Newest(Series(id))
                 pip == IF cfgs[id].key[1] \in JPYInstruments THEN 10000 ELSE 100
             IN /\ (newest.BidAtr <= 0 /\ newest.AskAtr <= 0)
                   => Distance(published') = 10 * pip
                /\ (newest.BidAtr <= 0 /\ newest.AskAtr > 0)
                   => Distance(published') = AtrDistance(cfgs[id].atrMult, newest.AskAtr, pip)]_vars

\* a step in which task id polled and found a bar at index 0 whose sequence
\* number is not the one it saw last: Evaluate is invoked
EvaluateStep(id) ==
    /\ id \in RunIDs
    /\ cfgs'[id].polls # cfgs[id].polls
    /\ Series(id) # <<>>
    /\ Series(id)[1].Sequence # cfgs[id].lastSeq

\* C30: on a polling tick where Evaluate returns None no trade command is
\* published and the run's last signal and last action time are unchanged;
\* where it returns Buy or Sell exactly one command is handed to
\* PublishSubmitOrder, and the run's last signal and last action time are set
\* to that signal and the current time.
C30_SignalFrame ==
    [][\A id \in 1..MaxRuns :
          EvaluateStep(id) =>
             IF cfgs'[id].signal = SignalNone
             THEN /\ published' = published
                  /\ cfgs'[id].lastSignal = cfgs[id].lastSignal
                  /\ cfgs'[id].lastActionAt = cfgs[id].lastActionAt
             ELSE /\ published'.serial # published.serial
                  /\ published'.OrderCmd = cfgs'[id].signal
                  /\ cfgs'[id].lastSignal = cfgs'[id].signal
                  /\ cfgs'[id].lastActionAt = now]_vars

\* C30's case: after a Buy order at an earlier time, Evaluate returned None on
\* another bar and the run still shows the Buy and its time.
C30_Witness ==
    \E id \in RunIDs :
       /\ cfgs[id].signal = SignalNone
       /\ cfgs[id].lastSignal = SignalBuy
       /\ cfgs[id].lastActionAt >= 0
       /\ cfgs[id].lastActionAt < now
       /\ published.serial # NoOrder.serial
       /\ published.OrderCmd = SignalBuy

\* ------------------------------------------------------------------------
\* The status query.

\* the entries Statuses returns for a key
StatusesOf(key) == {s \in Statuses : <<s.Instrument, s.Period>> = key}

\* C31: Statuses returns exactly one entry per key that has been started and
\* not since stopped, with running = true and the key's instrument, period
\* and strategy key, and no entry for a stopped run: after a start of a key
\* the key has one entry (of the starting request's strategy when the key had
\* no run), after a stop of a key it has none, and any other step leaves the
\* keys listed and their strategies as they were.
C31_StatusesListsActiveRuns ==
    [][/\ \A key \in Keys : Cardinality(StatusesOf(key)') <= 1
       /\ \A s \in Statuses' : s.Running
       /\ IF call' # call
          THEN \A key \in Keys :
                  IF key = call'.key
                  THEN /\ call'.op = "Start" =>
                             /\ Cardinality(StatusesOf(key)') = 1
                             /\ IF StatusesOf(key) = {}
                                THEN \A s \in StatusesOf(key)' : s.Key = call'.req.strategy
                                ELSE \A s \in StatusesOf(key)' :
                                        \E o \in StatusesOf(key) : s.Key = o.Key
                       /\ call'.op = "Stop" => StatusesOf(key)' = {}
                  ELSE StatusesOf(key)' = StatusesOf(key)
          ELSE {[Instrument |-> s.Instrument, Period |-> s.Period, Key |-> s.Key] : s \in Statuses'}
                  = {[Instrument |-> s.Instrument, Period |-> s.Period, Key |-> s.Key] : s \in Statuses}]_vars

\* C31's case: a key was started, stopped and started again with another
\* strategy; Statuses lists the second run only.
C31_Witness ==
    /\ Len(cfgs) = 2
    /\ cfgs[1].key = cfgs[2].key
    /\ cfgs[1].strategy # cfgs[2].strategy
    /\ runs[cfgs[2].key] = 2
    /\ Cardinality(Statuses) = 1
    /\ \A s \in Statuses : s.Key = cfgs[2].strategy /\ s.Running

\* ------------------------------------------------------------------------
\* SetParams.

\* p gives no value for the key, or one the claim calls out of range
Ignored(p, key, InRange(_)) == p.nil \/ key \notin DOMAIN p.m \/ ~InRange(p.m[key])

\* the integer part of v (in tenths) is greater than 1
IntegerPartAboveOne(v) == v >= 20

NonNegative(v) == v >= 0

Positive(v) == v > 0

\* C32: SetParams never stores an out-of-range value: when the parameter map
\* is nil, has no entry for a field (whatever other keys it has), or gives
\* len / atrLen a value whose integer part is not greater than 1, buf a
\* negative value or mult a non-positive value, the strategy's field keeps
\* its previous value; the other strategy is untouched.
C32_OutOfRangeIgnored ==
    [][setCall'.strategy # "" =>
         LET p == setCall'.params
             d == strategies.BREAKOUT_DC
             s == strategies.SUPERTREND_TREND
             dn == strategies'.BREAKOUT_DC
             sn == strategies'.SUPERTREND_TREND
         IN IF setCall'.strategy = "BREAKOUT_DC"
            THEN /\ Ignored(p, "len", IntegerPartAboveOne) => dn.len = d.len
                 /\ Ignored(p, "buf", NonNegative) => dn.buf = d.buf
                 /\ Ignored(p, "atrLen", IntegerPartAboveOne) => dn.atrLen = d.atrLen
                 /\ sn = s
            ELSE /\ Ignored(p, "atrLen", IntegerPartAboveOne) => sn.atrLen = s.atrLen
                 /\ Ignored(p, "mult", Positive) => sn.mult = s.mult
                 /\ dn = d]_vars

\* C32's case: SetParams was given len = 1.9 and buf = 2.5 on a strategy
\* whose len was 2: buf was stored, len kept the 2.
C32_Witness ==
    /\ setCall.strategy = "BREAKOUT_DC"
    /\ ~setCall.params.nil
    /\ DOMAIN setCall.params.m = {"len", "buf"}
    /\ setCall.params.m["len"] = 19
    /\ setCall.params.m["buf"] = 25
    /\ strategies.BREAKOUT_DC.len = 2
    /\ strategies.BREAKOUT_DC.buf = 25

\* ------------------------------------------------------------------------
\* Stopping a run while its polling task runs.

\* StopStrategy has returned for run id: it closed the run's stop channel
StopReturned(id) == id \in RunIDs /\ cfgs[id].closes > 0

\* C34: once StopStrategy has returned for a run, the run's polling task
\* takes no polling tick on which it begins an evaluation or publishes a
\* trade command.
C34_NoEvaluationAfterStop ==
    [][\A id \in 1..MaxRuns :
          (StopReturned(id) /\ id \in RunIDs /\ cfgs'[id].polls # cfgs[id].polls)
             => /\ ~EvaluateStep(id)
                /\ published' = published]_vars

\* the polling tasks of a key that have not exited
LiveTasks(key) == {id \in RunIDs : cfgs[id].key = key /\ cfgs[id].pc = "running"}

\* C35: at any time at most one polling task that has not yet exited exists
\* per (instrument, period) key, also when StopStrategy is followed at once
\* by StartStrategyWithParams on the same key.
C35_OneLiveTaskPerKey == \A key \in Keys : Cardinality(LiveTasks(key)) <= 1

\* ------------------------------------------------------------------------
\* Settlement of deliveries.

InLog(id) == id \in 1..Len(log)

Queued(id) == InLog(id) /\ \E i \in 1..Len(channel[log[id].class]) : channel[log[id].class][i].id = id

Held(id) == \E w \in Workers : hold[w] # NoDelivery /\ hold[w].id = id

Settled(id) == InLog(id) /\ log[id].acks + log[id].nacks = 1

\* no delivery is settled twice or both ways, and a delivery rejected at
\* enqueue has exactly one Nack
SettledAtMostOnce ==
    \A id \in 1..Len(log) :
       /\ log[id].acks + log[id].nacks <= 1
       /\ log[id].outcome = "rejected" => (log[id].nacks = 1 /\ log[id].acks = 0)

\* C36 as stated: every delivery that is in a queue while the handler is not
\* stopping is eventually settled by a worker, exactly once: one Ack or one
\* Nack, never both and never two; a delivery rejected because the queue is
\* full has exactly one Nack.
C36_EverySettledOnce ==
    /\ []SettledAtMostOnce
    /\ \A id \in 1..SettleDeliveries : (Queued(id) /\ ~stopped) ~> Settled(id)

\* C36, amended: no delivery is settled twice or both ways and a rejected
\* delivery has exactly one Nack; a delivery a worker has received is
\* eventually settled; a delivery in a queue is eventually settled unless
\* the handler is stopped.
C36_SettledOnceUnlessStopped ==
    /\ []SettledAtMostOnce
    /\ \A id \in 1..SettleDeliveries : Held(id) ~> Settled(id)
    /\ \A id \in 1..SettleDeliveries : Queued(id) ~> (Settled(id) \/ stopped)

\* C36's case: with the handler running, one delivery went through the queue
\* and was acknowledged by a worker, another was rejected on the full queue.
C36_Witness ==
    /\ ~stopped
    /\ \E a, b \in 1..Len(log) :
          /\ log[a].outcome = "applied" /\ log[a].acks = 1 /\ log[a].nacks = 0
          /\ log[b].outcome = "rejected" /\ log[b].nacks = 1

\* ------------------------------------------------------------------------
\* Accesses to a run's record of its last action.

\* C37: every read and write of a run's lastSignal and lastActionAt is made
\* while its goroutine holds the engine mutex, so the polling task's write
\* and a Statuses read of the same run are never under way at once.
C37_AccessesUnderMutex ==
    /\ \A a \in accesses : a.locked
    /\ \A a, b \in accesses : (a.run = b.run /\ a.kind = "write") => b = a

\* ------------------------------------------------------------------------
\* The command channel of the hub.

\* C38: every command sent into the hub's Commands channel is received and
\* processed by FrontendBroadcaster.processCommand; none is consumed and
\* dropped by another receiver of the channel.
C38_NoCommandDropped ==
    /\ hub.dropped = {}
    /\ \A id \in 1..Len(hub.cmds) :
          id \in hub.pending \/ \E i \in 1..Len(hub.processed) : hub.processed[i] = id

\* C40: a PLACE_ORDER command for an instrument whose tick ring is empty is
\* handled without failure: the command processor does not crash and goes on
\* processing later commands.
C40_PlaceOrderWithoutTicks == ~hub.crashed

\* ------------------------------------------------------------------------
\* The guardrails on the orders of the polling task.

\* the step that registers a new run
StartStep == call'.op = "Start" /\ call' # call /\ Len(cfgs') = Len(cfgs) + 1

\* the ATR the loop reads from the bar at index 0: the bid ATR, the ask ATR
\* when the bid ATR is not positive
HeadAtr(id) ==
    IF Series(id)[1].BidAtr > 0 THEN Series(id)[1].BidAtr ELSE Series(id)[1].AskAtr

\* C39: every order a polling task publishes carries an amount in (0, 100]
\* and comes from a run whose risk multiplier is in (0, 20]: a requested qty
\* <= 0 becomes 0.10, a qty > 100 becomes 100, an atrMult <= 0 becomes 1.0,
\* an atrMult > 20 becomes 20; and a protective distance derived from an ATR
\* is at least one pip.
C39_OrdersWithinGuardrails ==
    [][/\ StartStep =>
             LET req == call'.req
                 cfg == cfgs'[Len(cfgs')]
             IN /\ req.qty <= 0 => cfg.qty = 10
                /\ req.qty > 10000 => cfg.qty = 10000
                /\ (req.qty > 0 /\ req.qty <= 10000) => cfg.qty = req.qty
                /\ req.atrMult <= 0 => cfg.atrMult = 1
                /\ req.atrMult > 20 => cfg.atrMult = 20
                /\ (req.atrMult > 0 /\ req.atrMult <= 20) => cfg.atrMult = req.atrMult
       /\ \A id \in 1..MaxRuns :
             PublishStep(id) =>
                /\ published'.Amount > 0 /\ published'.Amount <= 10000
                /\ published'.Amount = cfgs[id].qty
                /\ cfgs[id].atrMult > 0 /\ cfgs[id].atrMult <= 20
                /\ HeadAtr(id) > 0
                      => Distance(published') >= getPipSize(cfgs[id].key[1])]_vars

\* C39's case: a run started with qty 100.01 and atrMult 0 has published an
\* order of amount 100 whose distance, from an ATR of 0.00003, is one pip.
C39_Witness ==
    /\ Len(cfgs) = 1
    /\ call.op = "Start" /\ call.req.qty = 10001 /\ call.req.atrMult = 0
    /\ cfgs[1].qty = 10000 /\ cfgs[1].atrMult = 1
    /\ cfgs[1].lastSignal = SignalBuy
    /\ published.serial = 1
    /\ published.Amount = 10000
    /\ Series(1) # <<>> /\ Series(1)[1].BidAtr = 30
    /\ Distance(published) = 100

====
